---------------------------- MODULE Spec2Model ----------------------------
(***************************************************************************)
(* State-machine model of the concurrent and lifecycle components of the   *)
(* Python Armoury toolbox.  Each component is an independent object of the *)
(* repository and has its own specification:                               *)
(*   SpecExecutor  base_class/thread_pool_task_executor.py                 *)
(*   SpecBackup    base_class/data_backup.py, base_class/app_data_backup.py*)
(*   SpecPool      utils/task_pool_manager/{thread,process}_pool_manager.py*)
(*   SpecLog       utils/log_ins.py, utils/console_util.py                 *)
(*   SpecRetry     utils/framework_util.py                                 *)
(*   SpecGit       utils/vcs/git_repo.py, utils/vcs/git/committer/*.py     *)
(*   SpecArchiver  base_class/vcs/git_archiver.py                          *)
(*   SpecSmb       base_class/file_system_smb.py                           *)
(*   SpecMsgBox    utils/pyside6/msg_box_mgr.py                            *)
(*   SpecClone     utils/vcs/git_repo.py (clone)                           *)
(*   SpecPackage   scripts/package.py, utils/package_util.py               *)
(***************************************************************************)
EXTENDS Integers, Sequences, FiniteSets, TLC

(***************************************************************************)
(* Bounds of the model.                                                    *)
(***************************************************************************)
MaxTasks == 3

MaxExisting == 3

MaxKeep == 2

MaxRequests == 2

MaxStarts == 2

MaxHandlers == 4

MaxRetries == 4

MaxFiles == 4

MaxTime == 3

MaxGap == 2

MaxCommitNum == 2

MaxSmbRetries == 3

MaxSmbCalls == 4

MaxShows == 9

MaxBoxNum == 2

(***************************************************************************)
(* Generic helpers.                                                        *)
(***************************************************************************)
Min(a, b) == IF a <= b THEN a ELSE b

RECURSIVE SeqMax(_)
SeqMax(s) == IF s = <<>> THEN 0
             ELSE LET m == SeqMax(Tail(s)) IN IF Head(s) > m THEN Head(s) ELSE m

Range(s) == {s[i] : i \in DOMAIN s}

(* Python's None, as it is stored in a slot of the results array. *)
NoneVal == 0

(***************************************************************************)
(* ThreadPoolTaskExecutor                                                  *)
(*                                                                         *)
(*   params    params_demo, the task parameters in submission order        *)
(*   fstate    state of the future of every task                           *)
(*   fout      what the task did: "ok", "raise" or "none" (returned None)  *)
(*   yielded   the futures as_completed has handed to the loop, in order   *)
(*   results   the results array of concurrent_run_tasks                   *)
(*   completed completed_task_count                                        *)
(*   epc       position of the caller inside concurrent_run_tasks          *)
(*   poolUp    TRUE while the ThreadPoolExecutor of the with block exists  *)
(***************************************************************************)
VARIABLES params, fstate, fout, yielded, results, completed, epc, poolUp

(***************************************************************************)
(* DataBackup / AppDataBackup                                              *)
(*                                                                         *)
(*   srcExists   os.path.exists(src_path)                                  *)
(*   maxBackups  max_backups_num: <<>> is None, <<n>> is the integer n     *)
(*   fmt         compress_fmt                                              *)
(*   hasStop, hasStart   whether stop_app_func / start_app_func are given  *)
(*   files0      entries of the destination directory before the run       *)
(*   files       entries of the destination directory                      *)
(*   appStopped  the attribute _app_stopped                                *)
(*   appState    the protected application: "running" or "stopped"         *)
(*   bkpc        the lifecycle step run() is about to execute              *)
(*   bkPath      backup_path, the id of the entry do_backup wrote          *)
(*   bkErr       the exception run() is propagating, "" when none          *)
(*   trace       the steps and hook calls made so far, in order            *)
(***************************************************************************)
VARIABLES srcExists, maxBackups, fmt, hasStop, hasStart, files0, files,
          appStopped, appState, bkpc, bkPath, bkErr, trace

(***************************************************************************)
(* ThreadPoolManager / ProcessPoolManager                                  *)
(*                                                                         *)
(*   mgr           "thread" or "process": the class of the manager         *)
(*   taskId        task_id                                                 *)
(*   responseQueue response_queue                                          *)
(*   received      the responses get_response has returned, in order       *)
(*   assigned      the task ids handed out so far, in order                *)
(*   submitted     the accepted messages, numbered, in the order of their  *)
(*                 ids                                                     *)
(*   calls         number of submit_task / send_request calls made         *)
(*   cres          per caller, how its latest call ended                   *)
(*   lockHolder    the thread inside task_id_lock, "none" when it is free  *)
(*   cpc, cmsg, ctmp   per caller inside submit_task: position, message,   *)
(*                 and the value of task_id it read                        *)
(*   workQueue     work items of the ThreadPoolExecutor not yet started    *)
(*   running       work items being run by a pool thread                   *)
(*   futures       per call, the future of its work item                   *)
(*   tpShutdown    the executor has been shut down                         *)
(*   requestQueue  request_queue                                           *)
(*   pool          the list of worker processes                            *)
(*   stopped       the attribute stopped                                   *)
(*   mpc           "joining" while stop_workers waits for the workers      *)
(*   wstate, wmsg  per worker process: its state and the message in hand   *)
(*   spawned       number of processes created so far                      *)
(*   sentinelsPut  termination signals enqueued by the latest stop_workers *)
(*   sentinelsGot  per worker, termination signals taken since then        *)
(***************************************************************************)
VARIABLES mgr, taskId, responseQueue, received, assigned, submitted, calls, cres,
          lockHolder, cpc, cmsg, ctmp, workQueue, running, futures, tpShutdown,
          requestQueue, pool, stopped, mpc, wstate, wmsg, spawned,
          sentinelsPut, sentinelsGot

(***************************************************************************)
(* LogUtil                                                                 *)
(*                                                                         *)
(*   loggerSet     cls._logger is not None                                 *)
(*   logHandlers   cls._logger.handlers                                    *)
(*   logLock       the thread inside cls._lock, "none" when it is free     *)
(*   lpc           per thread, its position inside get_logger              *)
(*   lsaw          per thread, what its test of cls._logger found          *)
(*   lret          per thread, what its latest get_logger returned         *)
(*   filesCreated  number of log files opened                              *)
(*   built         number of times the logger was constructed              *)
(***************************************************************************)
VARIABLES loggerSet, logHandlers, logLock, lpc, lsaw, lret, filesCreated, built

execVars == <<params, fstate, fout, yielded, results, completed, epc, poolUp>>

bkVars == <<srcExists, maxBackups, fmt, hasStop, hasStart, files0, files,
            appStopped, appState, bkpc, bkPath, bkErr, trace>>

poolVars == <<mgr, taskId, responseQueue, received, assigned, submitted, calls, cres,
              lockHolder, cpc, cmsg, ctmp, workQueue, running, futures, tpShutdown,
              requestQueue, pool, stopped, mpc, wstate, wmsg, spawned,
              sentinelsPut, sentinelsGot>>

logVars == <<loggerSet, logHandlers, logLock, lpc, lsaw, lret, filesCreated, built>>

(***************************************************************************)
(* FrameworkUtil.call_with_retry / call_with_retry2: one call              *)
(*                                                                         *)
(*   rvariant   which of the two functions is called: "v1" or "v2"         *)
(*   rretries   the retries argument                                       *)
(*   rexc       a set of retryable failure kinds is in force (exc_list is  *)
(*              not None; call_with_retry2 always has one)                 *)
(*   rattempt   number of invocations of func so far                       *)
(*   rlog       the outcome of each invocation, in order                   *)
(*   rslept     for each time.sleep, the number of invocations before it   *)
(*   rpc        position: "start", "call", "sleep", "returned", "raised"   *)
(*   rout       what the call returned or raised                           *)
(***************************************************************************)
VARIABLES rvariant, rretries, rexc, rattempt, rlog, rslept, rpc, rout

retryVars == <<rvariant, rretries, rexc, rattempt, rlog, rslept, rpc, rout>>

(***************************************************************************)
(* Git: one repository and one call on it                                  *)
(*                                                                         *)
(*   gclass     the API called: "repo" (GitRepo.commit) or "committer"     *)
(*              (GitCommitter.commit_changes)                              *)
(*   gcommits   the commits of the repository, oldest first: each with its *)
(*              date and the files it changes                              *)
(*   gwork      per file, its state in the working tree against the index: *)
(*              Unchanged, Removed, or its modification time               *)
(*   guntracked the changed files git does not track yet                   *)
(*   gstaged    the files whose index entry differs from HEAD              *)
(*   gbefore    the repository as the call found it                        *)
(*   gdiff      time_diff_sec: <<>> when None, else <<seconds>>            *)
(*   ggroups    the groups built by group_files_by_modify_time             *)
(*   gnext      index of the group create_commits_by_group is at           *)
(*   gmade      number of commits the call has created                     *)
(*   gpc        position: "idle", "commits", "done"                        *)
(*   gret       what the call returned                                     *)
(***************************************************************************)
VARIABLES gclass, gcommits, gwork, guntracked, gstaged, gbefore, gdiff,
          ggroups, gnext, gmade, gpc, gret

gitVars == <<gclass, gcommits, gwork, guntracked, gstaged, gbefore, gdiff,
             ggroups, gnext, gmade, gpc, gret>>

(***************************************************************************)
(* GitArchiver: one archive target                                         *)
(*                                                                         *)
(*   aglobal    the parameters of the "git_archiver" section               *)
(*   amap       the entry of "maps" for the target                         *)
(*   aparam     the GitArchiveTaskParam generate_archive_map built         *)
(*   acommits   the commit_num GitWrapper.commit returned, -1 before       *)
(*   atrace     the steps of _archive_by_git invoked so far                *)
(*   apc        position: "off", "profile", "init", "commit", "push",      *)
(*              "post", "returned", "raised"                               *)
(***************************************************************************)
VARIABLES aglobal, amap, aparam, acommits, atrace, apc

archVars == <<aglobal, amap, aparam, acommits, atrace, apc>>

(***************************************************************************)
(* FileSystemSmb: one adapter                                              *)
(*                                                                         *)
(*   ssession   self._session is not None                                  *)
(*   sreg       a session with the server is registered in smbclient       *)
(*   sretries   the retries argument of the connect under way              *)
(*   slog       the outcome of each register_session of that connect       *)
(*   spc        position: "idle", "loop", "sleep"                          *)
(*   sres       how the latest call ended                                  *)
(*   scalls     number of connect and disconnect calls made                *)
(*   sconnects  number of connects that returned                           *)
(*   sdeletes   number of delete_session calls                             *)
(*   sexpect    a connect has returned since the last disconnect that did  *)
(*              (history)                                                  *)
(***************************************************************************)
VARIABLES ssession, sreg, sretries, slog, spc, sres, scalls, sconnects,
          sdeletes, sexpect

smbVars == <<ssession, sreg, sretries, slog, spc, sres, scalls, sconnects,
             sdeletes, sexpect>>

(***************************************************************************)
(* MsgBoxMgr: one manager and the dialogs it has created, numbered in the  *)
(* order of their creation                                                 *)
(*                                                                         *)
(*   mbParam     the max_box_num argument: <<>> for None, <<n>> for n      *)
(*   mbList      self._msg_box_list                                        *)
(*   mbCreated   number of ManagedMsgBox objects created                   *)
(*   mbShows     number of show calls made                                 *)
(*   mbClosed    the dialogs whose done has run (history)                  *)
(*   mbRemovals  per dialog, how often it was removed from the list        *)
(*               (history)                                                 *)
(***************************************************************************)
VARIABLES mbParam, mbList, mbCreated, mbShows, mbClosed, mbRemovals

msgVars == <<mbParam, mbList, mbCreated, mbShows, mbClosed, mbRemovals>>

(***************************************************************************)
(* GitRepo.clone: one call                                                 *)
(*                                                                         *)
(*   clScheme    how remote_repo_url begins: "http", "https", another      *)
(*               scheme, or "none" when no URL was given                   *)
(*   clUser      username: "none", "empty" or "set"                        *)
(*   clPass      password: "none", "empty" or "set"                        *)
(*   clpc        position: "idle", "clone", "returned", "raised"           *)
(*   clRemote    the value _construct_remote_repo_url_with_auth_info       *)
(*               returned: "auth" for a URL with credentials, "none" for   *)
(*               None, "" before the call                                  *)
(*   clAttempted git.Repo.clone_from has been called                       *)
(*   clErr       the exception clone raised, "" when none                  *)
(***************************************************************************)
VARIABLES clScheme, clUser, clPass, clpc, clRemote, clAttempted, clErr

cloneVars == <<clScheme, clUser, clPass, clpc, clRemote, clAttempted, clErr>>

(***************************************************************************)
(* The packaging drivers: one run of scripts/package.py or of              *)
(* PackageUtil.pack_app                                                    *)
(*                                                                         *)
(*   pkDriver   "script" for scripts/package.py, "pack_app" for            *)
(*              PackageUtil.pack_app, "none" when no run is modelled       *)
(*   pkUi       pack_app was given ui_files                                *)
(*   pkPy       the version field of src/config/project_config.py:         *)
(*              "original" as before any build, "injected" with the build  *)
(*              version, "reset" with the value the restore step writes    *)
(*   pkRc       likewise the product version of scripts/version.rc         *)
(*   pkpc       position: "idle", "inject", "uic", "bundle", "restore",    *)
(*              "returned", "raised"                                       *)
(*   pkInjected the driver has written the build version into a file       *)
(*              (history)                                                  *)
(*   pkErr      the exception the run ended with, "" when none             *)
(***************************************************************************)
VARIABLES pkDriver, pkUi, pkPy, pkRc, pkpc, pkInjected, pkErr

pkgVars == <<pkDriver, pkUi, pkPy, pkRc, pkpc, pkInjected, pkErr>>

vars == <<execVars, bkVars, poolVars, logVars, retryVars, gitVars, archVars, smbVars, msgVars, cloneVars, pkgVars>>

(* What the actions of one component leave alone: the other components.   *)
notExec == <<bkVars, poolVars, logVars, retryVars, gitVars, archVars, smbVars, msgVars, cloneVars, pkgVars>>

notBackup == <<execVars, poolVars, logVars, retryVars, gitVars, archVars, smbVars, msgVars, cloneVars, pkgVars>>

notPool == <<execVars, bkVars, logVars, retryVars, gitVars, archVars, smbVars, msgVars, cloneVars, pkgVars>>

notLog == <<execVars, bkVars, poolVars, retryVars, gitVars, archVars, smbVars, msgVars, cloneVars, pkgVars>>

notRetry == <<execVars, bkVars, poolVars, logVars, gitVars, archVars, smbVars, msgVars, cloneVars, pkgVars>>

notGit == <<execVars, bkVars, poolVars, logVars, retryVars, archVars, smbVars, msgVars, cloneVars, pkgVars>>

notArch == <<execVars, bkVars, poolVars, logVars, retryVars, gitVars, smbVars, msgVars, cloneVars, pkgVars>>

notSmb == <<execVars, bkVars, poolVars, logVars, retryVars, gitVars, archVars, msgVars, cloneVars, pkgVars>>

notMsg == <<execVars, bkVars, poolVars, logVars, retryVars, gitVars, archVars, smbVars, cloneVars, pkgVars>>

notClone == <<execVars, bkVars, poolVars, logVars, retryVars, gitVars, archVars, smbVars, msgVars, pkgVars>>

notPkg == <<execVars, bkVars, poolVars, logVars, retryVars, gitVars, archVars, smbVars, msgVars, cloneVars>>

(* Default worker count of __init__. *)
DefaultWorkerCap == 8

TaskCount == Len(params)

MaxWorkers == Min(TaskCount, DefaultWorkerCap)

Tasks == 1..TaskCount

(* Parameter lists up to renaming of the (opaque) parameter values: the    *)
(* first value is 1 and every later one is an earlier value or the next    *)
(* unused one.  Equal numbers are parameters that compare equal.           *)
ParamLists ==
  UNION {{p \in [1..n -> 1..n] :
            \A i \in 1..n : p[i] <= 1 + SeqMax(SubSeq(p, 1, i - 1))}
         : n \in 1..MaxTasks}

(* The value task i produces when it succeeds: tagged with its producer.  *)
TaskResult(i) == i

(* list.index: the first position holding a value equal to task_data.     *)
GetTaskIndexByCompletion(task_data) == completed + 1

GetTaskIndex(task_data) ==
  CHOOSE j \in Tasks : params[j] = task_data
                       /\ \A k \in 1..(j - 1) : params[k] # task_data

(* _handle_exception: TRUE when it raises, i.e. the future holds an        *)
(* exception.                                                              *)
HandleException(f) == fout[f] = "raise"

(* _fetch_result: the value future.result() returns.                      *)
FetchResult(f) == IF fout[f] = "ok" THEN TaskResult(f) ELSE NoneVal

(* _validate_result: TRUE when it raises.                                  *)
ValidateResultAcceptAll(result) == FALSE

ValidateResult(result) == result = NoneVal

(* The executor as constructed, before concurrent_run_tasks is called.    *)
ExecIdle ==
  /\ fstate = [i \in DOMAIN params |-> "new"]
  /\ fout = [i \in DOMAIN params |-> "unset"]
  /\ yielded = <<>>
  /\ results = <<>>
  /\ completed = 0
  /\ epc = "idle"
  /\ poolUp = FALSE

ExecInit ==
  /\ params \in ParamLists
  /\ ExecIdle

(* concurrent_run_tasks up to and including _submit_tasks: the results    *)
(* array is allocated, the pool is created and every task is queued.      *)
SubmitTasks ==
  /\ epc = "idle"
  /\ results' = [i \in Tasks |-> NoneVal]
  /\ completed' = 0
  /\ poolUp' = TRUE
  /\ fstate' = [i \in Tasks |-> "queued"]
  /\ epc' = "loop"
  /\ UNCHANGED <<params, fout, yielded>>
  /\ UNCHANGED notExec

(* A pool thread takes the oldest queued work item.                        *)
WorkerStart ==
  /\ poolUp
  /\ Cardinality({i \in Tasks : fstate[i] = "running"}) < MaxWorkers
  /\ \E i \in Tasks :
       /\ fstate[i] = "queued"
       /\ \A k \in 1..(i - 1) : fstate[k] # "queued"
       /\ fstate' = [fstate EXCEPT ![i] = "running"]
  /\ UNCHANGED <<params, fout, yielded, results, completed, epc, poolUp>>
  /\ UNCHANGED notExec

(* The task function of a running task returns a value, returns None or   *)
(* raises; the future becomes done.                                        *)
WorkerFinish ==
  \E i \in Tasks, o \in {"ok", "raise", "none"} :
    /\ fstate[i] = "running"
    /\ fstate' = [fstate EXCEPT ![i] = "done"]
    /\ fout' = [fout EXCEPT ![i] = o]
    /\ UNCHANGED <<params, yielded, results, completed, epc, poolUp>>
    /\ UNCHANGED notExec

(* One turn of the as_completed loop: a done future not yet yielded is     *)
(* handed to the loop body, which raises or stores the result.             *)
HandleCompleted ==
  /\ epc = "loop"
  /\ \E f \in Tasks :
       /\ fstate[f] = "done"
       /\ f \notin Range(yielded)
       /\ yielded' = Append(yielded, f)
       /\ LET task_data == params[f]
              result == FetchResult(f)
          IN IF HandleException(f) \/ ValidateResult(result)
             THEN /\ epc' = "exit_raise"
                  /\ UNCHANGED <<results, completed>>
             ELSE /\ results' = [results EXCEPT ![GetTaskIndex(task_data)] = result]
                  /\ completed' = completed + 1
                  /\ epc' = IF Len(yielded') = TaskCount THEN "exit_return" ELSE "loop"
  /\ UNCHANGED <<params, fstate, fout, poolUp>>
  /\ UNCHANGED notExec

(* Leaving the with block, were __exit__ shutdown(wait=False): it returns  *)
(* without waiting for the tasks still queued or running.                  *)
ExitPoolNoWait ==
  /\ epc \in {"exit_raise", "exit_return"}
  /\ poolUp' = FALSE
  /\ epc' = IF epc = "exit_return" THEN "returned" ELSE "raised"
  /\ UNCHANGED <<params, fstate, fout, yielded, results, completed>>
  /\ UNCHANGED notExec

(* Leaving the with block: ThreadPoolExecutor.__exit__ is shutdown(wait=   *)
(* True), which returns once every submitted task has run; then the       *)
(* results are returned or the pending exception propagates.               *)
ExitPool ==
  /\ epc \in {"exit_raise", "exit_return"}
  /\ \A i \in Tasks : fstate[i] = "done"
  /\ poolUp' = FALSE
  /\ epc' = IF epc = "exit_return" THEN "returned" ELSE "raised"
  /\ UNCHANGED <<params, fstate, fout, yielded, results, completed>>
  /\ UNCHANGED notExec

ExecNext == SubmitTasks \/ WorkerStart \/ WorkerFinish \/ HandleCompleted \/ ExitPool

(***************************************************************************)
(* DataBackup / AppDataBackup: one call of run().  AppDataBackup with      *)
(* neither hook given behaves as DataBackup.                               *)
(***************************************************************************)
(* Formats: the four CompressUtil.compress accepts and one it does not.    *)
Formats == {"zip", "tar.gz", "tar.bz2", "tar.xz", "7z"}

TarFormats == {"tar.gz", "tar.bz2", "tar.xz"}

(* Modification time of the archive written by this run: backups are       *)
(* named by the second, and every entry already present is older.          *)
Now == MaxExisting + 1

(* Directory entry of the archive written by this run.                     *)
NewBackup == [id |-> MaxExisting + 1, mtime |-> Now, match |-> TRUE]

(* An entry of the destination directory whose name does not start with    *)
(* the backup prefix.                                                      *)
OtherEntry == [id |-> MaxExisting + 2, mtime |-> 1, match |-> FALSE]

(* Destination directories before the run: k entries that start with the   *)
(* prefix, numbered by age, and possibly an unrelated entry.               *)
DirListings ==
  UNION {{ {[id |-> i, mtime |-> mt[i], match |-> TRUE] : i \in 1..k} \cup other
           : mt \in {m \in [1..k -> 1..MaxExisting] :
                       \A i \in 1..k : i > 1 => m[i - 1] <= m[i]},
             other \in {{}, {OtherEntry}} }
         : k \in 0..MaxExisting}

(* The orders in which sorted(..., key=mtime) can return a set of entries: *)
(* ascending by modification time, ties in the order of os.listdir.        *)
RECURSIVE SortedByMtime(_)
SortedByMtime(S) ==
  IF S = {} THEN {<<>>}
  ELSE UNION {{<<f>> \o s : s \in SortedByMtime(S \ {f})}
              : f \in {g \in S : \A h \in S : g.mtime <= h.mtime}}

(* list_backups: the entries that start with the prefix, oldest first.     *)
ListBackups(dir) == SortedByMtime({f \in dir : f.match})

(* check_params: the exception it raises, "" when it returns.  None < 0    *)
(* is a TypeError.                                                         *)
CheckParams(src_exists, max_backups_num) ==
  IF ~src_exists THEN "FileNotFoundError"
  ELSE IF max_backups_num = <<>> THEN "TypeError"
  ELSE IF max_backups_num[1] < 0 THEN "ValueError"
  ELSE ""

(* CompressUtil.compress: the exception it raises whatever the filesystem  *)
(* does, "" when it goes on to write the archive.                          *)
Compress(src_exists, f) ==
  IF ~src_exists THEN "FileNotFoundError"
  ELSE IF f = "zip" \/ f \in TarFormats THEN ""
  ELSE "NotImplementedError"

(* CompressUtil.check_compressed_file: the exception it raises before      *)
(* looking at the archive, "" when it goes on to test the archive.         *)
CheckCompressedFile(f) == IF f = "zip" THEN "" ELSE "NotImplementedError"

(* rotate: the number of entries to delete from a listing.                 *)
DelNumKeepOneMore(max_backups_num, backups) ==
  IF max_backups_num = <<>> THEN 0
  ELSE IF Len(backups) <= max_backups_num[1] + 1 THEN 0
  ELSE Len(backups) - max_backups_num[1] - 1

DelNum(max_backups_num, backups) ==
  IF max_backups_num = <<>> THEN 0
  ELSE IF Len(backups) <= max_backups_num[1] THEN 0
  ELSE Len(backups) - max_backups_num[1]

(* The backup object as constructed, before run() is called.               *)
BackupIdle ==
  /\ srcExists = TRUE
  /\ maxBackups = <<>>
  /\ fmt = "zip"
  /\ hasStop = FALSE
  /\ hasStart = FALSE
  /\ files0 = {}
  /\ files = {}
  /\ appStopped = FALSE
  /\ appState = "running"
  /\ bkpc = "idle"
  /\ bkPath = 0
  /\ bkErr = ""
  /\ trace = <<>>

BackupInit ==
  /\ srcExists \in BOOLEAN
  /\ maxBackups \in {<<>>} \cup {<<n>> : n \in (-1)..MaxKeep}
  /\ fmt \in Formats
  /\ hasStop \in BOOLEAN
  /\ hasStart \in BOOLEAN
  /\ files0 \in DirListings
  /\ files = files0
  /\ appStopped = FALSE
  /\ appState = "running"
  /\ bkpc = "idle"
  /\ bkPath = 0
  /\ bkErr = ""
  /\ trace = <<>>

bkParams == <<srcExists, maxBackups, fmt, hasStop, hasStart, files0>>

(* A step raises err: control passes to the except clause of              *)
(* AppDataBackup.run.                                                      *)
Raise(step, events, err) ==
  /\ trace' = trace \o <<step>> \o events \o <<"raise">>
  /\ bkErr' = err
  /\ bkpc' = "except"

(* A step returns: run() goes on with the step after it.                   *)
ProceedPastCheck(step, events, next) ==
  /\ trace' = trace \o <<step>> \o events
  /\ bkpc' = IF next = "check_backup" THEN "rotate" ELSE next
  /\ UNCHANGED bkErr

Proceed(step, events, next) ==
  /\ trace' = trace \o <<step>> \o events
  /\ bkpc' = next
  /\ UNCHANGED bkErr

RunCheckParams ==
  /\ bkpc = "idle"
  /\ LET err == CheckParams(srcExists, maxBackups)
     IN IF err # "" THEN Raise("check_params", <<>>, err)
        ELSE Proceed("check_params", <<>>, "prepare_env")
  /\ UNCHANGED <<bkParams, files, appStopped, appState, bkPath>>
  /\ UNCHANGED notBackup

(* prepare_env: os.makedirs succeeds or raises.                            *)
RunPrepareEnv ==
  /\ bkpc = "prepare_env"
  /\ \/ Proceed("prepare_env", <<>>, "pre_backup")
     \/ Raise("prepare_env", <<>>, "OSError")
  /\ UNCHANGED <<bkParams, files, appStopped, appState, bkPath>>
  /\ UNCHANGED notBackup

(* pre_backup: _app_stopped = stop_app().  A stop hook that raises may or  *)
(* may not have stopped the application, and the assignment is skipped.    *)
RunPreBackup ==
  /\ bkpc = "pre_backup"
  /\ IF hasStop
     THEN \/ /\ Proceed("pre_backup", <<"stop_ok">>, "do_backup")
             /\ appState' = "stopped"
             /\ appStopped' = TRUE
          \/ /\ Raise("pre_backup", <<"stop_fail">>, "HookError")
             /\ appState' \in {"running", "stopped"}
             /\ UNCHANGED appStopped
     ELSE /\ Proceed("pre_backup", <<>>, "do_backup")
          /\ appStopped' = FALSE
          /\ UNCHANGED appState
  /\ UNCHANGED <<bkParams, files, bkPath>>
  /\ UNCHANGED notBackup

(* do_backup, were the old backups rotated out before the new archive is   *)
(* written and tested.                                                     *)
RunDoBackupRotateFirst ==
  /\ bkpc = "do_backup"
  /\ \E backups \in ListBackups(files \cup {NewBackup}) :
       LET kept == files \ {backups[i] : i \in 1..DelNum(maxBackups, backups)}
           err == Compress(srcExists, fmt)
       IN IF err # ""
          THEN /\ Raise("do_backup", <<>>, err)
               /\ UNCHANGED <<files, bkPath>>
          ELSE \/ /\ Proceed("do_backup", <<>>, "check_backup")
                  /\ files' = kept \cup {NewBackup}
                  /\ bkPath' = NewBackup.id
               \/ /\ Raise("do_backup", <<>>, "RuntimeError")
                  /\ files' \in {kept, kept \cup {NewBackup}}
                  /\ UNCHANGED bkPath
  /\ UNCHANGED <<bkParams, appStopped, appState>>
  /\ UNCHANGED notBackup

(* do_backup: compress the source into a new entry of the destination.     *)
(* A failing write may leave a partial archive behind.                     *)
RunDoBackup ==
  /\ bkpc = "do_backup"
  /\ LET err == Compress(srcExists, fmt)
     IN IF err # ""
        THEN /\ Raise("do_backup", <<>>, err)
             /\ UNCHANGED <<files, bkPath>>
        ELSE \/ /\ Proceed("do_backup", <<>>, "check_backup")
                /\ files' = files \cup {NewBackup}
                /\ bkPath' = NewBackup.id
             \/ /\ Raise("do_backup", <<>>, "RuntimeError")
                /\ files' \in {files, files \cup {NewBackup}}
                /\ UNCHANGED bkPath
  /\ UNCHANGED <<bkParams, appStopped, appState>>
  /\ UNCHANGED notBackup

(* check_backup: the integrity test of the new archive.                    *)
RunCheckBackup ==
  /\ bkpc = "check_backup"
  /\ LET err == CheckCompressedFile(fmt)
     IN IF err # "" THEN Raise("check_backup", <<>>, err)
        ELSE \/ Proceed("check_backup", <<>>, "rotate")
             \/ Raise("check_backup", <<>>, "BadZipFile")
  /\ UNCHANGED <<bkParams, files, appStopped, appState, bkPath>>
  /\ UNCHANGED notBackup

(* rotate: delete the first del_num entries of the listing; a removal may  *)
(* raise, which leaves the later entries in place.                         *)
RunRotate ==
  /\ bkpc = "rotate"
  /\ \E backups \in ListBackups(files) :
       LET del_num == DelNum(maxBackups, backups)
       IN \/ /\ files' = files \ {backups[i] : i \in 1..del_num}
             /\ Proceed("rotate", <<>>, "post_backup")
          \/ \E done \in 0..(del_num - 1) :
               /\ files' = files \ {backups[i] : i \in 1..done}
               /\ Raise("rotate", <<>>, "OSError")
  /\ UNCHANGED <<bkParams, appStopped, appState, bkPath>>
  /\ UNCHANGED notBackup

(* post_backup: if self.start_app(): self._app_stopped = False.            *)
RunPostBackup ==
  /\ bkpc = "post_backup"
  /\ IF hasStart
     THEN \/ /\ Proceed("post_backup", <<"start_ok">>, "returned")
             /\ appState' = "running"
             /\ appStopped' = FALSE
          \/ /\ Raise("post_backup", <<"start_fail">>, "HookError")
             /\ UNCHANGED <<appState, appStopped>>
     ELSE /\ Proceed("post_backup", <<>>, "returned")
          /\ UNCHANGED <<appState, appStopped>>
  /\ UNCHANGED <<bkParams, files, bkPath>>
  /\ UNCHANGED notBackup

(* DataBackup.run has no except clause: the exception just propagates.    *)
RunExceptNoRestart ==
  /\ bkpc = "except"
  /\ bkpc' = "raised"
  /\ UNCHANGED <<trace, appState, bkErr>>
  /\ UNCHANGED <<bkParams, files, appStopped, bkPath>>
  /\ UNCHANGED notBackup

(* The except clause of AppDataBackup.run: restart the application when    *)
(* _app_stopped is set, then re-raise.  A start hook that raises here      *)
(* replaces the exception being propagated.                                *)
RunExcept ==
  /\ bkpc = "except"
  /\ bkpc' = "raised"
  /\ IF appStopped /\ hasStart
     THEN \/ /\ trace' = Append(trace, "start_ok")
             /\ appState' = "running"
             /\ UNCHANGED bkErr
          \/ /\ trace' = Append(trace, "start_fail")
             /\ bkErr' = "HookError"
             /\ UNCHANGED appState
     ELSE UNCHANGED <<trace, appState, bkErr>>
  /\ UNCHANGED <<bkParams, files, appStopped, bkPath>>
  /\ UNCHANGED notBackup

BackupNext ==
  \/ RunCheckParams
  \/ RunPrepareEnv
  \/ RunPreBackup
  \/ RunDoBackup
  \/ RunCheckBackup
  \/ RunRotate
  \/ RunPostBackup
  \/ RunExcept

(***************************************************************************)
(* Task-pool managers: ThreadPoolManager and ProcessPoolManager.  mgr says *)
(* which of the two classes the object is.  A message and a response are   *)
(* mappings: functions whose domain is the set of their keys.              *)
(***************************************************************************)
(* The calling threads of the thread-based manager; the process-based      *)
(* manager is driven by the first of them alone.                           *)
Callers == {"t1", "t2"}

MainCaller == "t1"

(* Worker count: ThreadPoolManager(max_workers=2) in the tests and the     *)
(* default num_workers of ProcessPoolManager.                              *)
ThreadWorkers == 2

NumWorkers == 2

(* The message types with a registered handler.                            *)
Registered == {"text", "math"}

(* The messages a caller may pass on its n-th call: well-formed ones of a  *)
(* registered or an unknown type, and ones lacking a field.                *)
InputMessages(n) ==
  {[type |-> t, data |-> n] : t \in Registered \cup {"unknown"}}
    \cup {[type |-> "text"], [data |-> n]}

(* The termination signal stop_workers enqueues (None).                    *)
Sentinel == [none |-> TRUE]

IsSentinel(m) == "none" \in DOMAIN m

WorkerIds == 1..(NumWorkers * MaxStarts)

(* The checks at the head of submit_task and send_request: the exception   *)
(* raised, "" when the message passes.                                     *)
ValidateMessage(m) ==
  IF "type" \notin DOMAIN m \/ "data" \notin DOMAIN m THEN "ValueError"
  ELSE IF m["type"] \notin Registered THEN "ValueError"
  ELSE ""

(* What a handler returns for a message: a function of its data.           *)
HandlerResult(m) == m["data"]

(* ThreadPoolManager._task_wrapper: the response for a message whose       *)
(* handler returned (ok) or raised.                                        *)
TaskWrapper(m, ok) ==
  IF ok THEN [id |-> m["id"], type |-> m["type"], result |-> HandlerResult(m)]
  ELSE [id |-> m["id"], type |-> m["type"], error |-> "handler failed"]

(* ThreadPoolManager._handle_response: the response queue after the done   *)
(* callback of a future holding rsp has run.                               *)
HandleResponsePutTwice(q, rsp) == Append(Append(q, rsp), rsp)

HandleResponse(q, rsp) == Append(q, rsp)

(* ProcessPoolManager.worker_function: the response put for a message      *)
(* whose handler returned (ok) or raised.                                  *)
WorkerResponse(m, ok) ==
  IF ok THEN [id |-> m["id"], type |-> m["type"], result |-> HandlerResult(m)]
  ELSE [error |-> "handler failed"]

(* with self.task_id_lock: the lock can be taken.                          *)
TaskIdLockIgnored == TRUE

TaskIdLockFree == lockHolder = "none"

(* send_request: the exception raised before the message is looked at.     *)
NotRunningIgnored(is_stopped, workers) == ""

NotRunning(is_stopped, workers) ==
  IF is_stopped \/ workers = <<>> THEN "RuntimeError" ELSE ""

(* stop_workers: the number of termination signals for a pool.            *)
SentinelCountOne(workers) == IF workers = <<>> THEN 0 ELSE 1

SentinelCount(workers) == Len(workers)

NoCall == [outcome |-> "none", consumed |-> FALSE, id |-> 0]

NoFuture == [state |-> "none", id |-> 0, cb |-> FALSE, rsp |-> <<>>]

(* Both managers as constructed, handlers registered.                      *)
PoolIdle ==
  /\ taskId = 0
  /\ responseQueue = <<>>
  /\ received = <<>>
  /\ assigned = <<>>
  /\ submitted = <<>>
  /\ calls = 0
  /\ cres = [c \in Callers |-> NoCall]
  /\ lockHolder = "none"
  /\ cpc = [c \in Callers |-> "idle"]
  /\ cmsg = [c \in Callers |-> <<>>]
  /\ ctmp = [c \in Callers |-> 0]
  /\ workQueue = <<>>
  /\ running = {}
  /\ futures = [n \in 1..MaxRequests |-> NoFuture]
  /\ tpShutdown = FALSE
  /\ requestQueue = <<>>
  /\ pool = <<>>
  /\ stopped = FALSE
  /\ mpc = "ready"
  /\ wstate = [w \in WorkerIds |-> "unborn"]
  /\ wmsg = [w \in WorkerIds |-> <<>>]
  /\ spawned = 0
  /\ sentinelsPut = 0
  /\ sentinelsGot = [w \in WorkerIds |-> 0]

PoolOff == mgr = "none" /\ PoolIdle

PoolInit == mgr \in {"thread", "process"} /\ PoolIdle

threadVars == <<lockHolder, cpc, cmsg, ctmp, workQueue, running, futures, tpShutdown>>

procVars == <<requestQueue, pool, stopped, mpc, wstate, wmsg, spawned,
              sentinelsPut, sentinelsGot>>

(***************************************************************************)
(* ThreadPoolManager                                                       *)
(***************************************************************************)
(* submit_task, the validation: a rejected message raises ValueError; an   *)
(* accepted one goes on to the lock.                                       *)
SubmitTask(c) ==
  /\ mgr = "thread"
  /\ cpc[c] = "idle"
  /\ calls < MaxRequests
  /\ calls' = calls + 1
  /\ \E m \in InputMessages(calls + 1) :
       IF ValidateMessage(m) # ""
       THEN /\ cres' = [cres EXCEPT ![c] =
                          [outcome |-> ValidateMessage(m), consumed |-> FALSE, id |-> 0]]
            /\ UNCHANGED <<cpc, cmsg>>
       ELSE /\ cres' = [cres EXCEPT ![c] = NoCall]
            /\ cmsg' = [cmsg EXCEPT ![c] = m]
            /\ cpc' = [cpc EXCEPT ![c] = "lock"]
  /\ UNCHANGED <<mgr, taskId, responseQueue, received, assigned, submitted, lockHolder, ctmp,
                 workQueue, running, futures, tpShutdown, procVars>>
  /\ UNCHANGED notPool

(* with self.task_id_lock, and the read of self.task_id += 1.              *)
LockAndLoad(c) ==
  /\ mgr = "thread"
  /\ cpc[c] = "lock"
  /\ TaskIdLockFree
  /\ lockHolder' = c
  /\ ctmp' = [ctmp EXCEPT ![c] = taskId]
  /\ cpc' = [cpc EXCEPT ![c] = "store"]
  /\ UNCHANGED <<mgr, taskId, responseQueue, received, assigned, submitted, calls, cres, cmsg,
                 workQueue, running, futures, tpShutdown, procVars>>
  /\ UNCHANGED notPool

(* The write of self.task_id += 1, message["id"] = self.task_id, and the   *)
(* release of the lock.                                                    *)
StoreAndUnlock(c) ==
  /\ mgr = "thread"
  /\ cpc[c] = "store"
  /\ taskId' = ctmp[c] + 1
  /\ cmsg' = [cmsg EXCEPT ![c] =
                [type |-> cmsg[c]["type"], data |-> cmsg[c]["data"], id |-> taskId']]
  /\ assigned' = Append(assigned, taskId')
  /\ submitted' = Append(submitted, cmsg'[c])
  /\ cres' = [cres EXCEPT ![c].consumed = TRUE]
  /\ lockHolder' = IF lockHolder = c THEN "none" ELSE lockHolder
  /\ cpc' = [cpc EXCEPT ![c] = "submit"]
  /\ UNCHANGED <<mgr, responseQueue, received, calls, ctmp,
                 workQueue, running, futures, tpShutdown, procVars>>
  /\ UNCHANGED notPool

(* self.executor.submit(...): the work item is queued, or the executor,    *)
(* already shut down, raises RuntimeError.                                 *)
ExecutorSubmit(c) ==
  /\ mgr = "thread"
  /\ cpc[c] = "submit"
  /\ IF tpShutdown
     THEN /\ cres' = [cres EXCEPT ![c].outcome = "RuntimeError"]
          /\ cpc' = [cpc EXCEPT ![c] = "idle"]
          /\ UNCHANGED <<workQueue, futures>>
     ELSE /\ workQueue' = Append(workQueue, cmsg[c])
          /\ futures' = [futures EXCEPT ![cmsg[c]["data"]].state = "pending",
                                         ![cmsg[c]["data"]].id = cmsg[c]["id"]]
          /\ cpc' = [cpc EXCEPT ![c] = "addcb"]
          /\ UNCHANGED cres
  /\ UNCHANGED <<mgr, taskId, responseQueue, received, assigned, submitted, calls, lockHolder,
                 cmsg, ctmp, running, tpShutdown, procVars>>
  /\ UNCHANGED notPool

(* future.add_done_callback(self._handle_response): registered when the    *)
(* future is not done yet, run at once by the caller when it is.           *)
AddDoneCallback(c) ==
  /\ mgr = "thread"
  /\ cpc[c] = "addcb"
  /\ LET n == cmsg[c]["data"]
     IN IF futures[n].state = "finished"
        THEN /\ responseQueue' = HandleResponse(responseQueue, futures[n].rsp)
             /\ UNCHANGED futures
        ELSE /\ futures' = [futures EXCEPT ![n].cb = TRUE]
             /\ UNCHANGED responseQueue
  /\ cres' = [cres EXCEPT ![c].outcome = "accepted", ![c].id = cmsg[c]["id"]]
  /\ cpc' = [cpc EXCEPT ![c] = "idle"]
  /\ UNCHANGED <<mgr, taskId, received, assigned, submitted, calls, lockHolder, cmsg, ctmp,
                 workQueue, running, tpShutdown, procVars>>
  /\ UNCHANGED notPool

(* A pool thread takes the oldest work item.                               *)
ThreadTake ==
  /\ mgr = "thread"
  /\ workQueue # <<>>
  /\ Cardinality(running) < ThreadWorkers
  /\ running' = running \cup {Head(workQueue)}
  /\ workQueue' = Tail(workQueue)
  /\ futures' = [futures EXCEPT ![Head(workQueue)["data"]].state = "running"]
  /\ UNCHANGED <<mgr, taskId, responseQueue, received, assigned, submitted, calls, cres,
                 lockHolder, cpc, cmsg, ctmp, tpShutdown, procVars>>
  /\ UNCHANGED notPool

(* _task_wrapper returns: the future is done and its callbacks run.        *)
ThreadFinish ==
  /\ mgr = "thread"
  /\ \E m \in running, ok \in BOOLEAN :
       LET n == m["data"]
           rsp == TaskWrapper(m, ok)
       IN /\ running' = running \ {m}
          /\ futures' = [futures EXCEPT ![n].state = "finished", ![n].rsp = rsp]
          /\ IF futures[n].cb
             THEN responseQueue' = HandleResponse(responseQueue, rsp)
             ELSE UNCHANGED responseQueue
  /\ UNCHANGED <<mgr, taskId, received, assigned, submitted, calls, cres, lockHolder, cpc, cmsg, ctmp,
                 workQueue, tpShutdown, procVars>>
  /\ UNCHANGED notPool

(* shutdown: the executor takes no more work; queued items still run.      *)
Shutdown ==
  /\ mgr = "thread"
  /\ ~tpShutdown
  /\ tpShutdown' = TRUE
  /\ UNCHANGED <<mgr, taskId, responseQueue, received, assigned, submitted, calls, cres,
                 lockHolder, cpc, cmsg, ctmp, workQueue, running, futures, procVars>>
  /\ UNCHANGED notPool

(* get_response, were the queue a stack: the newest response leaves.       *)
GetResponseNewest ==
  /\ mgr \in {"thread", "process"}
  /\ mpc = "ready"
  /\ responseQueue # <<>>
  /\ received' = Append(received, responseQueue[Len(responseQueue)])
  /\ responseQueue' = SubSeq(responseQueue, 1, Len(responseQueue) - 1)
  /\ UNCHANGED <<mgr, taskId, assigned, submitted, calls, cres, threadVars, procVars>>
  /\ UNCHANGED notPool

(* get_response of either manager: the oldest response leaves the queue.   *)
GetResponse ==
  /\ mgr \in {"thread", "process"}
  /\ mpc = "ready"
  /\ responseQueue # <<>>
  /\ received' = Append(received, Head(responseQueue))
  /\ responseQueue' = Tail(responseQueue)
  /\ UNCHANGED <<mgr, taskId, assigned, submitted, calls, cres, threadVars, procVars>>
  /\ UNCHANGED notPool

(***************************************************************************)
(* ProcessPoolManager                                                      *)
(***************************************************************************)
(* start_workers: num_workers new processes join the pool.                 *)
StartWorkers ==
  /\ mgr = "process"
  /\ mpc = "ready"
  /\ spawned + NumWorkers <= NumWorkers * MaxStarts
  /\ stopped' = FALSE
  /\ LET new == (spawned + 1)..(spawned + NumWorkers)
     IN /\ pool' = pool \o [i \in 1..NumWorkers |-> spawned + i]
        /\ wstate' = [w \in WorkerIds |-> IF w \in new THEN "idle" ELSE wstate[w]]
  /\ spawned' = spawned + NumWorkers
  /\ UNCHANGED <<mgr, taskId, responseQueue, received, assigned, submitted, calls, cres,
                 threadVars, requestQueue, mpc, wmsg, sentinelsPut, sentinelsGot>>
  /\ UNCHANGED notPool

(* send_request: rejected while no workers run and for a bad message,      *)
(* otherwise numbered and queued.                                          *)
SendRequest ==
  /\ mgr = "process"
  /\ mpc = "ready"
  /\ calls < MaxRequests
  /\ calls' = calls + 1
  /\ \E m \in InputMessages(calls + 1) :
       LET err == IF NotRunning(stopped, pool) # "" THEN NotRunning(stopped, pool)
                  ELSE ValidateMessage(m)
       IN IF err # ""
          THEN /\ cres' = [cres EXCEPT ![MainCaller] =
                             [outcome |-> err, consumed |-> FALSE, id |-> 0]]
               /\ UNCHANGED <<taskId, assigned, submitted, requestQueue>>
          ELSE /\ taskId' = taskId + 1
               /\ assigned' = Append(assigned, taskId')
               /\ submitted' = Append(submitted,
                    [type |-> m["type"], data |-> m["data"], id |-> taskId'])
               /\ requestQueue' = Append(requestQueue,
                    [type |-> m["type"], data |-> m["data"], id |-> taskId'])
               /\ cres' = [cres EXCEPT ![MainCaller] =
                             [outcome |-> "accepted", consumed |-> TRUE, id |-> taskId']]
  /\ UNCHANGED <<mgr, responseQueue, received, threadVars, pool, stopped,
                 mpc, wstate, wmsg, spawned, sentinelsPut, sentinelsGot>>
  /\ UNCHANGED notPool

(* stop_workers, first loop: one termination signal per pool entry.        *)
StopWorkers ==
  /\ mgr = "process"
  /\ mpc = "ready"
  /\ requestQueue' = requestQueue \o [i \in 1..SentinelCount(pool) |-> Sentinel]
  /\ sentinelsPut' = SentinelCount(pool)
  /\ sentinelsGot' = [w \in WorkerIds |-> 0]
  /\ mpc' = "joining"
  /\ UNCHANGED <<mgr, taskId, responseQueue, received, assigned, submitted, calls, cres,
                 threadVars, pool, stopped, wstate, wmsg, spawned>>
  /\ UNCHANGED notPool

(* stop_workers, the joins and what follows: every process of the pool     *)
(* has exited, the pool is cleared and the manager marked stopped.         *)
JoinWorkers ==
  /\ mgr = "process"
  /\ mpc = "joining"
  /\ \A i \in DOMAIN pool : wstate[pool[i]] = "exited"
  /\ pool' = <<>>
  /\ stopped' = TRUE
  /\ mpc' = "ready"
  /\ UNCHANGED <<mgr, taskId, responseQueue, received, assigned, submitted, calls, cres,
                 threadVars, requestQueue, wstate, wmsg, spawned,
                 sentinelsPut, sentinelsGot>>
  /\ UNCHANGED notPool

(* worker_function, request_queue.get(): a termination signal ends the     *)
(* loop, a message is taken for handling.                                  *)
WorkerGet(w) ==
  /\ mgr = "process"
  /\ wstate[w] = "idle"
  /\ requestQueue # <<>>
  /\ requestQueue' = Tail(requestQueue)
  /\ IF IsSentinel(Head(requestQueue))
     THEN /\ wstate' = [wstate EXCEPT ![w] = "exited"]
          /\ sentinelsGot' = [sentinelsGot EXCEPT ![w] = @ + 1]
          /\ UNCHANGED wmsg
     ELSE /\ wstate' = [wstate EXCEPT ![w] = "busy"]
          /\ wmsg' = [wmsg EXCEPT ![w] = Head(requestQueue)]
          /\ UNCHANGED sentinelsGot
  /\ UNCHANGED <<mgr, taskId, responseQueue, received, assigned, submitted, calls, cres,
                 threadVars, pool, stopped, mpc, spawned, sentinelsPut>>
  /\ UNCHANGED notPool

(* worker_function, were the except clause outside the loop: a handler     *)
(* that raises ends its worker without a response.                         *)
WorkerHandleDies(w) ==
  /\ mgr = "process"
  /\ wstate[w] = "busy"
  /\ \E ok \in BOOLEAN :
       IF ok
       THEN /\ responseQueue' = Append(responseQueue, WorkerResponse(wmsg[w], ok))
            /\ wstate' = [wstate EXCEPT ![w] = "idle"]
       ELSE /\ wstate' = [wstate EXCEPT ![w] = "exited"]
            /\ UNCHANGED responseQueue
  /\ wmsg' = [wmsg EXCEPT ![w] = <<>>]
  /\ UNCHANGED <<mgr, taskId, received, assigned, submitted, calls, cres, threadVars,
                 requestQueue, pool, stopped, mpc, spawned, sentinelsPut, sentinelsGot>>
  /\ UNCHANGED notPool

(* worker_function, the handler call: its result, or the error of the      *)
(* except clause, is put on the response queue and the loop goes on.       *)
WorkerHandle(w) ==
  /\ mgr = "process"
  /\ wstate[w] = "busy"
  /\ \E ok \in BOOLEAN :
       responseQueue' = Append(responseQueue, WorkerResponse(wmsg[w], ok))
  /\ wstate' = [wstate EXCEPT ![w] = "idle"]
  /\ wmsg' = [wmsg EXCEPT ![w] = <<>>]
  /\ UNCHANGED <<mgr, taskId, received, assigned, submitted, calls, cres, threadVars, requestQueue,
                 pool, stopped, mpc, spawned, sentinelsPut, sentinelsGot>>
  /\ UNCHANGED notPool

PoolNext ==
  \/ \E c \in Callers : SubmitTask(c)
  \/ \E c \in Callers : LockAndLoad(c)
  \/ \E c \in Callers : StoreAndUnlock(c)
  \/ \E c \in Callers : ExecutorSubmit(c)
  \/ \E c \in Callers : AddDoneCallback(c)
  \/ ThreadTake
  \/ ThreadFinish
  \/ Shutdown
  \/ GetResponse
  \/ StartWorkers
  \/ SendRequest
  \/ StopWorkers
  \/ JoinWorkers
  \/ \E w \in WorkerIds : WorkerGet(w)
  \/ \E w \in WorkerIds : WorkerHandle(w)

(***************************************************************************)
(* LogUtil: the process-wide logger, used by several threads.  A handler   *)
(* list is the sequence of the kinds of its handlers: "console" for a      *)
(* logging.StreamHandler, "file" for a logging.FileHandler.                *)
(***************************************************************************)
LogThreads == {"a", "b"}

(* isinstance(handler, logging.StreamHandler): logging.FileHandler is a    *)
(* subclass of logging.StreamHandler.                                      *)
IsStreamHandler(h) == h \in {"console", "file"}

RemoveAt(s, i) == SubSeq(s, 1, i - 1) \o SubSeq(s, i + 1, Len(s))

(* clear_console_handle_within_lock: the for loop walks the handler list   *)
(* by position while removeHandler shortens it, so the entry after a       *)
(* removed one is skipped.  i is the position the iterator is at.          *)
RECURSIVE ClearConsoleLoop(_, _)
ClearConsoleLoop(hs, i) ==
  IF i > Len(hs) THEN hs
  ELSE IF IsStreamHandler(hs[i]) THEN ClearConsoleLoop(RemoveAt(hs, i), i + 1)
  ELSE ClearConsoleLoop(hs, i + 1)

(* with cls._lock: the lock can be taken.                                  *)
LogLockIgnored == TRUE

LogLockFree == logLock = "none"

(* The class as loaded: no logger yet.                                     *)
LogIdle ==
  /\ loggerSet = FALSE
  /\ logHandlers = <<>>
  /\ logLock = "none"
  /\ lpc = [t \in LogThreads |-> "idle"]
  /\ lsaw = [t \in LogThreads |-> FALSE]
  /\ lret = [t \in LogThreads |-> "nothing"]
  /\ filesCreated = 0
  /\ built = 0

(* get_logger: take the lock and test cls._logger is None.                 *)
GetLoggerEnter(t) ==
  /\ lpc[t] = "idle"
  /\ LogLockFree
  /\ logLock' = t
  /\ lsaw' = [lsaw EXCEPT ![t] = loggerSet]
  /\ lpc' = [lpc EXCEPT ![t] = "get"]
  /\ UNCHANGED <<loggerSet, logHandlers, lret, filesCreated, built>>
  /\ UNCHANGED notLog

(* get_logger: build the logger when the test found none (a log file is    *)
(* opened, a console and a file handler are added), release the lock and   *)
(* return cls._logger.                                                     *)
GetLoggerLeave(t) ==
  /\ lpc[t] = "get"
  /\ IF lsaw[t]
     THEN UNCHANGED <<loggerSet, logHandlers, filesCreated, built>>
     ELSE /\ loggerSet' = TRUE
          /\ built' = built + 1
          /\ filesCreated' = filesCreated + 1
          /\ logHandlers' = logHandlers \o <<"console", "file">>
  /\ lret' = [lret EXCEPT ![t] = "logger"]
  /\ logLock' = IF logLock = t THEN "none" ELSE logLock
  /\ lpc' = [lpc EXCEPT ![t] = "idle"]
  /\ UNCHANGED lsaw
  /\ UNCHANGED notLog

(* clear_console_handle: under the lock, the removal loop.                 *)
ClearConsoleHandle(t) ==
  /\ lpc[t] = "idle"
  /\ LogLockFree
  /\ logHandlers' = IF loggerSet THEN ClearConsoleLoop(logHandlers, 1) ELSE logHandlers
  /\ UNCHANGED <<loggerSet, logLock, lpc, lsaw, lret, filesCreated, built>>
  /\ UNCHANGED notLog

(* add_console_handle: under the lock, a new console handler is appended.  *)
AddConsoleHandle(t) ==
  /\ lpc[t] = "idle"
  /\ LogLockFree
  /\ Len(logHandlers) < MaxHandlers
  /\ logHandlers' = IF loggerSet THEN Append(logHandlers, "console") ELSE logHandlers
  /\ UNCHANGED <<loggerSet, logLock, lpc, lsaw, lret, filesCreated, built>>
  /\ UNCHANGED notLog

(* ConsoleUtil.create_console in a packaged Windows process: under the     *)
(* lock of the logger, the console handlers are cleared and one is added.  *)
CreateConsole(t) ==
  /\ lpc[t] = "idle"
  /\ LogLockFree
  /\ logHandlers' = IF loggerSet
                    THEN Append(ClearConsoleLoop(logHandlers, 1), "console")
                    ELSE logHandlers
  /\ UNCHANGED <<loggerSet, logLock, lpc, lsaw, lret, filesCreated, built>>
  /\ UNCHANGED notLog

LogNext ==
  \/ \E t \in LogThreads : GetLoggerEnter(t)
  \/ \E t \in LogThreads : GetLoggerLeave(t)
  \/ \E t \in LogThreads : ClearConsoleHandle(t)
  \/ \E t \in LogThreads : AddConsoleHandle(t)
  \/ \E t \in LogThreads : CreateConsole(t)

(***************************************************************************)
(* FrameworkUtil: the generic retry.  An outcome of func is a record: ok   *)
(* with the value returned, or a failure with its kind; both carry the     *)
(* number of the invocation that produced them, so that the outcomes of    *)
(* different attempts are different objects.                               *)
(***************************************************************************)
(* The kinds of failure func raises: one of the retryable kinds, or not.   *)
FailureKinds == {"retryable", "other"}

Outcomes(n) ==
  {[ok |-> TRUE, kind |-> "value", at |-> n]}
    \cup {[ok |-> FALSE, kind |-> k, at |-> n] : k \in FailureKinds}

NoOutcome == [ok |-> FALSE, kind |-> "none", at |-> 0]

(* Raised by the function itself, not by func.                             *)
OwnFailure(k) == [ok |-> FALSE, kind |-> k, at |-> 0]

(* call_with_retry, line 46: the failure is one to retry on.               *)
IsRetryableAlways(exc_supplied, kind) == TRUE

IsRetryable(exc_supplied, kind) == ~exc_supplied \/ kind = "retryable"

(* call_with_retry, line 48: attempt is the 0-based index of range(retries)*)
IsLastAttemptNever(attempt, retries) == FALSE

IsLastAttempt(attempt, retries) == attempt = retries - 1

(* call_with_retry2, line 71: attempt is the 1-based index.                *)
SleepsBeforeNext(attempt, retries) == attempt < retries

RetryIdle ==
  /\ rvariant = "v1"
  /\ rretries = 0
  /\ rexc = FALSE
  /\ rattempt = 0
  /\ rlog = <<>>
  /\ rslept = <<>>
  /\ rpc = "off"
  /\ rout = NoOutcome

RetryInit ==
  /\ rvariant \in {"v1", "v2"}
  /\ rretries \in 0..MaxRetries
  /\ rexc \in BOOLEAN
  /\ rvariant = "v2" => rexc
  /\ rattempt = 0
  /\ rlog = <<>>
  /\ rslept = <<>>
  /\ rpc = "start"
  /\ rout = NoOutcome

(* Entry: call_with_retry rejects retries <= 0; call_with_retry2 with an   *)
(* empty range falls through to raise last_exc with last_exc = None, which *)
(* is a TypeError.                                                         *)
RetryEnter ==
  /\ rpc = "start"
  /\ IF rretries <= 0
     THEN /\ rpc' = "raised"
          /\ rout' = OwnFailure(IF rvariant = "v1" THEN "RuntimeError" ELSE "TypeError")
     ELSE /\ rpc' = "call"
          /\ UNCHANGED rout
  /\ UNCHANGED <<rvariant, rretries, rexc, rattempt, rlog, rslept>>
  /\ UNCHANGED notRetry

(* One pass of the loop of call_with_retry: func is invoked; its value is  *)
(* returned, or its failure is re-raised or followed by a sleep.           *)
RetryAttempt1 ==
  /\ rpc = "call"
  /\ rvariant = "v1"
  /\ \E o \in Outcomes(rattempt + 1) :
       /\ rattempt' = rattempt + 1
       /\ rlog' = Append(rlog, o)
       /\ IF o.ok
          THEN rpc' = "returned" /\ rout' = o
          ELSE IF ~IsRetryable(rexc, o.kind)
          THEN rpc' = "raised" /\ rout' = o
          ELSE IF IsLastAttempt(rattempt, rretries)
          THEN rpc' = "raised" /\ rout' = o
          ELSE rpc' = "sleep" /\ UNCHANGED rout
  /\ UNCHANGED <<rvariant, rretries, rexc, rslept>>
  /\ UNCHANGED notRetry

(* One pass of the loop of call_with_retry2: a failure outside             *)
(* retry_exceptions is not caught; a caught one is kept in last_exc, and   *)
(* after the last pass last_exc is raised.                                 *)
RetryAttempt2 ==
  /\ rpc = "call"
  /\ rvariant = "v2"
  /\ \E o \in Outcomes(rattempt + 1) :
       /\ rattempt' = rattempt + 1
       /\ rlog' = Append(rlog, o)
       /\ IF o.ok
          THEN rpc' = "returned" /\ rout' = o
          ELSE IF ~IsRetryable(rexc, o.kind)
          THEN rpc' = "raised" /\ rout' = o
          ELSE IF SleepsBeforeNext(rattempt + 1, rretries)
          THEN rpc' = "sleep" /\ UNCHANGED rout
          ELSE rpc' = "raised" /\ rout' = o
  /\ UNCHANGED <<rvariant, rretries, rexc, rslept>>
  /\ UNCHANGED notRetry

(* time.sleep(interval_sec), then the next pass.                           *)
RetrySleep ==
  /\ rpc = "sleep"
  /\ rattempt < MaxRetries + 2
  /\ rslept' = Append(rslept, rattempt)
  /\ rpc' = "call"
  /\ UNCHANGED <<rvariant, rretries, rexc, rattempt, rlog, rout>>
  /\ UNCHANGED notRetry

RetryNext ==
  \/ RetryEnter
  \/ RetryAttempt1
  \/ RetryAttempt2
  \/ RetrySleep

(***************************************************************************)
(* Git: GitRepo.commit, GitCommitter.commit_changes and the time-grouped   *)
(* committer.  Times are whole seconds; a file list is a sequence of       *)
(* <<path, modification time>> pairs.                                      *)
(***************************************************************************)
Files == 1..MaxFiles

Unchanged == -1

Removed == -2

(* time.time() / the date of a commit made without a forced date: later    *)
(* than every modification time.                                           *)
GitNow == MaxTime + 1

Abs(x) == IF x < 0 THEN -x ELSE x

(* The paths of a set, in path order, as a sequence.                       *)
RECURSIVE InPathOrder(_)
InPathOrder(S) ==
  IF S = {} THEN <<>>
  ELSE LET f == CHOOSE x \in S : \A y \in S : x <= y
       IN <<f>> \o InPathOrder(S \ {f})

ChangedSet(work) == {f \in Files : work[f] # Unchanged}

(* get_repo_changes_files: modified files then untracked files, each with  *)
(* os.path.getmtime, or time.time() when the path no longer exists.        *)
GetRepoChangesFiles(work, untracked) ==
  LET changes_files == InPathOrder(ChangedSet(work) \ untracked)
                         \o InPathOrder(ChangedSet(work) \cap untracked)
  IN [i \in DOMAIN changes_files |->
        <<changes_files[i],
          IF work[changes_files[i]] = Removed THEN GitNow
          ELSE work[changes_files[i]]>>]

(* list.sort(key=lambda x: x[1]): a stable sort by modification time.      *)
RECURSIVE InsertByTime(_, _)
InsertByTime(sorted, e) ==
  IF sorted = <<>> THEN <<e>>
  ELSE IF sorted[Len(sorted)][2] <= e[2] THEN Append(sorted, e)
  ELSE Append(InsertByTime(SubSeq(sorted, 1, Len(sorted) - 1), e),
              sorted[Len(sorted)])

RECURSIVE SortByTime(_)
SortByTime(file_list) ==
  IF file_list = <<>> THEN <<>>
  ELSE InsertByTime(SortByTime(SubSeq(file_list, 1, Len(file_list) - 1)),
                    file_list[Len(file_list)])

(* group_files_by_modify_time, line 112: the file joins the current group. *)
JoinsGroupAlways(last_modify_time, modify_time, time_diff_sec) == TRUE

JoinsGroup(last_modify_time, modify_time, time_diff_sec) ==
  last_modify_time = <<>> \/ Abs(modify_time - last_modify_time[1]) <= time_diff_sec

(* The loop of group_files_by_modify_time from position i on.              *)
RECURSIVE GroupLoop(_, _, _, _, _, _)
GroupLoop(file_list, i, grouped_files, current_group, last_modify_time, time_diff_sec) ==
  IF i > Len(file_list)
  THEN IF current_group # <<>> THEN Append(grouped_files, current_group)
       ELSE grouped_files
  ELSE IF JoinsGroup(last_modify_time, file_list[i][2], time_diff_sec)
  THEN GroupLoop(file_list, i + 1, grouped_files,
                 Append(current_group, file_list[i]),
                 <<file_list[i][2]>>, time_diff_sec)
  ELSE GroupLoop(file_list, i + 1, Append(grouped_files, current_group),
                 <<file_list[i]>>, <<file_list[i][2]>>, time_diff_sec)

GroupFilesByModifyTime(file_list, time_diff_sec) ==
  GroupLoop(SortByTime(file_list), 1, <<>>, <<>>, <<>>, time_diff_sec)

(* datetime.fromtimestamp(t, tz=timezone(timedelta(hours=8))): the instant *)
(* t, written in the zone UTC+8.                                           *)
FromTimestamp(t) == [epoch |-> t, utcoffset |-> 8]

(* create_commits_by_group, line 155: the date forced on a group's commit. *)
CommitTimeOfFirst(group) == FromTimestamp(group[1][2])

CommitTime(group) == FromTimestamp(group[Len(group)][2])

PathsOf(group) == {group[i][1] : i \in DOMAIN group}

(* GitUtil.add_files_to_stage: what it returns for a working tree with the *)
(* given changed files (it returns before the selective staging code).     *)
AddFilesToStage(changed) == TRUE

(* GitRepo._has_commit                                                     *)
HasCommit(commits) == Len(commits) > 0

(* GitRepo._has_changes_to_commit: index against HEAD, or untracked files. *)
HasChangesToCommit(staged, untracked) == staged # {} \/ untracked # {}

(* repo.index.commit: a commit of the index is appended, whether or not    *)
(* the index differs from HEAD.                                            *)
IndexCommit(commits, staged, date) ==
  Append(commits, [date |-> date, files |-> staged])

NoReturn == [kind |-> "none", val |-> 0]

Returned(k, v) == [kind |-> k, val |-> v]

NoWork == [f \in Files |-> Unchanged]

GitIdle ==
  /\ gclass = "none"
  /\ gcommits = <<>>
  /\ gwork = NoWork
  /\ guntracked = {}
  /\ gstaged = {}
  /\ gbefore = [commits |-> 0, changed |-> {}]
  /\ gdiff = <<>>
  /\ ggroups = <<>>
  /\ gnext = 0
  /\ gmade = 0
  /\ gpc = "idle"
  /\ gret = NoReturn

(* A repository with one commit (or, for GitRepo, none yet), a working     *)
(* tree with some files changed, some of them untracked, and possibly one  *)
(* staged file.                                                            *)
GitInit ==
  /\ gclass \in {"repo", "committer"}
  /\ gcommits \in {<<>>, <<[date |-> FromTimestamp(0), files |-> {}]>>}
  /\ gclass = "committer" => gcommits # <<>>
  /\ gwork \in [Files -> {Unchanged, Removed} \cup 0..MaxTime]
  /\ gclass = "repo" => \A f \in Files : gwork[f] \in {Unchanged, 0}
  /\ guntracked \in SUBSET ChangedSet(gwork)
  /\ gclass = "committer" =>
       guntracked \in {{}, {f \in ChangedSet(gwork) : gwork[f] # Removed /\ f % 2 = 1}}
  /\ gstaged \in {{}, {1}}
  /\ gstaged \cap ChangedSet(gwork) = {}
  /\ gstaged # {} => gcommits # <<>>
  /\ gbefore = [commits |-> Len(gcommits), changed |-> ChangedSet(gwork) \cup gstaged]
  /\ gdiff \in {<<>>} \cup {<<d>> : d \in 0..MaxGap}
  /\ gclass = "repo" => gdiff = <<>>
  /\ ggroups = <<>>
  /\ gnext = 0
  /\ gmade = 0
  /\ gpc = "idle"
  /\ gret = NoReturn

(* GitRepo.commit(msg, all_files).  On a repository without commits        *)
(* _initial_commit stages everything and commits, and control then goes on *)
(* to "Perform commit" at line 202.                                        *)
RepoCommit ==
  /\ gclass = "repo"
  /\ gpc = "idle"
  /\ \E all_files \in BOOLEAN :
       IF ~HasCommit(gcommits)
       THEN /\ gcommits' = IndexCommit(
                             IndexCommit(gcommits, gstaged \cup ChangedSet(gwork),
                                         FromTimestamp(GitNow)),
                             {}, FromTimestamp(GitNow))
            /\ gwork' = NoWork
            /\ guntracked' = {}
            /\ gstaged' = {}
            /\ gmade' = gmade + 2
            /\ gret' = Returned("bool", TRUE)
       ELSE LET staged == IF all_files THEN gstaged \cup ChangedSet(gwork) ELSE gstaged
                untracked == IF all_files THEN {} ELSE guntracked
            IN /\ gwork' = IF all_files THEN NoWork ELSE gwork
               /\ guntracked' = untracked
               /\ IF ~HasChangesToCommit(staged, untracked)
                  THEN /\ gret' = Returned("bool", FALSE)
                       /\ gstaged' = staged
                       /\ UNCHANGED <<gcommits, gmade>>
                  ELSE /\ gcommits' = IndexCommit(gcommits, staged, FromTimestamp(GitNow))
                       /\ gstaged' = {}
                       /\ gmade' = gmade + 1
                       /\ gret' = Returned("bool", TRUE)
  /\ gpc' = "done"
  /\ UNCHANGED <<gclass, gbefore, gdiff, ggroups, gnext>>
  /\ UNCHANGED notGit

(* GitCommitter.commit_changes with no grouping interval: everything is    *)
(* staged, and a commit is made when add_files_to_stage returned true.     *)
CommitChanges ==
  /\ gclass = "committer"
  /\ gpc = "idle"
  /\ gdiff = <<>>
  /\ gstaged' = {}
  /\ gwork' = NoWork
  /\ guntracked' = {}
  /\ IF AddFilesToStage(ChangedSet(gwork))
     THEN /\ gcommits' = IndexCommit(gcommits, gstaged \cup ChangedSet(gwork),
                                     FromTimestamp(GitNow))
          /\ gmade' = gmade + 1
          /\ gret' = Returned("int", 0 + 1)
     ELSE /\ UNCHANGED <<gcommits, gmade>>
          /\ gret' = Returned("int", 0)
  /\ gpc' = "done"
  /\ UNCHANGED <<gclass, gbefore, gdiff, ggroups, gnext>>
  /\ UNCHANGED notGit

(* commit_changes with a grouping interval: ModifyTimeGroupedCommitter.run *)
(* up to the call of create_commits_by_group.                              *)
GroupedRun ==
  /\ gclass = "committer"
  /\ gpc = "idle"
  /\ gdiff # <<>>
  /\ LET file_list == GetRepoChangesFiles(gwork, guntracked)
     IN IF file_list = <<>>
        THEN /\ gret' = Returned("int", 0)
             /\ gpc' = "done"
             /\ UNCHANGED <<ggroups, gnext>>
        ELSE /\ ggroups' = GroupFilesByModifyTime(file_list, gdiff[1])
             /\ gnext' = 1
             /\ gpc' = "commits"
             /\ UNCHANGED gret
  /\ UNCHANGED <<gclass, gcommits, gwork, guntracked, gstaged, gbefore, gdiff, gmade>>
  /\ UNCHANGED notGit

(* create_commits_by_group, one pass of the loop: the files of the group   *)
(* are added and the index is committed with the group's date.             *)
CreateCommitsByGroup ==
  /\ gpc = "commits"
  /\ gnext <= Len(ggroups)
  /\ LET group == ggroups[gnext]
     IN /\ gcommits' = IndexCommit(gcommits, gstaged \cup PathsOf(group), CommitTime(group))
        /\ gwork' = [f \in Files |-> IF f \in PathsOf(group) THEN Unchanged ELSE gwork[f]]
        /\ guntracked' = guntracked \ PathsOf(group)
  /\ gstaged' = {}
  /\ gmade' = gmade + 1
  /\ gnext' = gnext + 1
  /\ UNCHANGED <<gclass, gbefore, gdiff, ggroups, gpc, gret>>
  /\ UNCHANGED notGit

(* create_commits_by_group and run return commit_num.                      *)
GroupedReturn ==
  /\ gpc = "commits"
  /\ gnext > Len(ggroups)
  /\ gret' = Returned("int", gmade)
  /\ gpc' = "done"
  /\ UNCHANGED <<gclass, gcommits, gwork, guntracked, gstaged, gbefore, gdiff,
                 ggroups, gnext, gmade>>
  /\ UNCHANGED notGit

GitNext ==
  \/ RepoCommit
  \/ CommitChanges
  \/ GroupedRun
  \/ CreateCommitsByGroup
  \/ GroupedReturn

(***************************************************************************)
(* GitArchiver.  A parameter value is "none" (None, or the key is not in   *)
(* the JSON), "empty" (an empty string), "set" (a non-empty string),       *)
(* "false" or "true"; "absent" says that a key is not in the map at all.   *)
(***************************************************************************)
(* The truth value Python gives a parameter.                               *)
Truthy(v) == v \in {"set", "true"}

(* a or b                                                                  *)
PyOr(a, b) == IF Truthy(a) THEN a ELSE b

NoParam == [url |-> "none", username |-> "none", password |-> "none",
            push_after_commit |-> "none", error |-> ""]

GlobalParams ==
  [url : {"none", "set"}, username : {"none", "set"}, password : {"none", "set"},
   push_after_commit : {"none", "false", "true"}]

MapEntries ==
  [repo_url : {"absent", "none", "empty", "set"},
   repo_username : {"none", "empty", "set"},
   repo_password : {"none", "set"},
   repo_push_after_commit : {"none", "false", "true"},
   repo_encoded_password : BOOLEAN,
   encoded_password : BOOLEAN]

(* generate_archive_map: the parameters of a target.  The password of a    *)
(* map that has "repo_encoded_password" is decoded from the key            *)
(* "encoded_password"; Base64Codec.decode(None) raises TypeError.          *)
GenerateArchiveMap(global_param, map_json) ==
  LET password == PyOr(map_json.repo_password, global_param.password)
      decodes == password = "none" /\ map_json.repo_encoded_password
  IN [url |-> IF map_json.repo_url # "absent" THEN map_json.repo_url
              ELSE IF Truthy(global_param.url) THEN global_param.url ELSE "none",
      username |-> PyOr(map_json.repo_username, global_param.username),
      password |-> IF decodes /\ map_json.encoded_password THEN "set" ELSE password,
      push_after_commit |-> PyOr(map_json.repo_push_after_commit,
                                 global_param.push_after_commit),
      error |-> IF decodes /\ ~map_json.encoded_password THEN "TypeError" ELSE ""]

(* _archive_by_git, line 167: the condition of the push.                   *)
ShouldPushAnyCount(commit_num, param) ==
  /\ Truthy(param.url)
  /\ Truthy(param.username)
  /\ Truthy(param.password)
  /\ Truthy(param.push_after_commit)

ShouldPush(commit_num, param) ==
  /\ commit_num > 0
  /\ Truthy(param.url)
  /\ Truthy(param.username)
  /\ Truthy(param.password)
  /\ Truthy(param.push_after_commit)

ArchIdle ==
  /\ aglobal = [url |-> "none", username |-> "none", password |-> "none",
                push_after_commit |-> "none"]
  /\ amap = [repo_url |-> "absent", repo_username |-> "none", repo_password |-> "none",
             repo_push_after_commit |-> "none", repo_encoded_password |-> FALSE,
             encoded_password |-> FALSE]
  /\ aparam = NoParam
  /\ acommits = -1
  /\ atrace = <<>>
  /\ apc = "off"

ArchInit ==
  /\ aglobal \in GlobalParams
  /\ amap \in MapEntries
  /\ aparam = NoParam
  /\ acommits = -1
  /\ atrace = <<>>
  /\ apc = "profile"

(* _do_parsr_profile_content: the target's parameters are built.           *)
ParseProfile ==
  /\ apc = "profile"
  /\ aparam' = GenerateArchiveMap(aglobal, amap)
  /\ apc' = IF aparam'.error # "" THEN "raised" ELSE "init"
  /\ UNCHANGED <<aglobal, amap, acommits, atrace>>
  /\ UNCHANGED notArch

(* _archive_by_git: _pre_init_repo and GitWrapper.init_repo, which returns *)
(* or raises.                                                              *)
ArchiveInitRepo ==
  /\ apc = "init"
  /\ atrace' = atrace \o <<"pre_init_repo", "init_repo">>
  /\ apc' \in {"commit", "raised"}
  /\ UNCHANGED <<aglobal, amap, aparam, acommits>>
  /\ UNCHANGED notArch

(* _archive_by_git: _pre_commit and GitWrapper.commit, which returns the   *)
(* number of commits or raises.                                            *)
ArchiveCommit ==
  /\ apc = "commit"
  /\ atrace' = atrace \o <<"pre_commit", "commit">>
  /\ \/ \E n \in 0..MaxCommitNum : acommits' = n /\ apc' = "push"
     \/ apc' = "raised" /\ UNCHANGED acommits
  /\ UNCHANGED <<aglobal, amap, aparam>>
  /\ UNCHANGED notArch

(* _archive_by_git, lines 167-168: GitWrapper.push when the condition      *)
(* holds; the push returns or raises.                                      *)
ArchivePush ==
  /\ apc = "push"
  /\ IF ShouldPush(acommits, aparam)
     THEN /\ atrace' = Append(atrace, "push")
          /\ apc' \in {"post", "raised"}
     ELSE /\ apc' = "post"
          /\ UNCHANGED atrace
  /\ UNCHANGED <<aglobal, amap, aparam, acommits>>
  /\ UNCHANGED notArch

(* _archive_by_git: _post_push, return 0.                                  *)
ArchivePostPush ==
  /\ apc = "post"
  /\ atrace' = Append(atrace, "post_push")
  /\ apc' = "returned"
  /\ UNCHANGED <<aglobal, amap, aparam, acommits>>
  /\ UNCHANGED notArch

ArchNext ==
  \/ ParseProfile
  \/ ArchiveInitRepo
  \/ ArchiveCommit
  \/ ArchivePush
  \/ ArchivePostPush

(***************************************************************************)
(* FileSystemSmb.connect / disconnect                                      *)
(***************************************************************************)
(* connect, line 39: range(retries) has a pass left after i passes.        *)
HasNextPassOneMore(i, retries) == i <= retries

HasNextPass(i, retries) == i < retries

SmbIdle ==
  /\ ssession = FALSE
  /\ sreg = FALSE
  /\ sretries = 0
  /\ slog = <<>>
  /\ spc = "off"
  /\ sres = "none"
  /\ scalls = 0
  /\ sconnects = 0
  /\ sdeletes = 0
  /\ sexpect = FALSE

(* The adapter as constructed: self._session = None.                       *)
SmbInit ==
  /\ ssession = FALSE
  /\ sreg = FALSE
  /\ sretries = 0
  /\ slog = <<>>
  /\ spc = "idle"
  /\ sres = "none"
  /\ scalls = 0
  /\ sconnects = 0
  /\ sdeletes = 0
  /\ sexpect = FALSE

(* connect(retries) is called.                                             *)
Connect ==
  /\ spc = "idle"
  /\ scalls < MaxSmbCalls
  /\ \E n \in 0..MaxSmbRetries : sretries' = n
  /\ slog' = <<>>
  /\ spc' = "loop"
  /\ sres' = "none"
  /\ scalls' = scalls + 1
  /\ UNCHANGED <<ssession, sreg, sconnects, sdeletes, sexpect>>
  /\ UNCHANGED notSmb

(* One pass of the loop: register_session returns, and connect returns     *)
(* with the session kept, or it raises.                                    *)
ConnectAttempt ==
  /\ spc = "loop"
  /\ HasNextPass(Len(slog), sretries)
  /\ \/ /\ slog' = Append(slog, "ok")
        /\ ssession' = TRUE
        /\ sreg' = TRUE
        /\ spc' = "idle"
        /\ sres' = "connected"
        /\ sconnects' = sconnects + 1
        /\ sexpect' = TRUE
     \/ /\ slog' = Append(slog, "failed")
        /\ spc' = "sleep"
        /\ UNCHANGED <<ssession, sreg, sres, sconnects, sexpect>>
  /\ UNCHANGED <<sretries, scalls, sdeletes>>
  /\ UNCHANGED notSmb

(* time.sleep(retry_interval_sec); continue                                *)
ConnectSleep ==
  /\ spc = "sleep"
  /\ spc' = "loop"
  /\ UNCHANGED <<ssession, sreg, sretries, slog, sres, scalls, sconnects,
                 sdeletes, sexpect>>
  /\ UNCHANGED notSmb

(* The loop is exhausted: raise RuntimeError.                              *)
ConnectGiveUp ==
  /\ spc = "loop"
  /\ ~HasNextPass(Len(slog), sretries)
  /\ spc' = "idle"
  /\ sres' = "RuntimeError"
  /\ UNCHANGED <<ssession, sreg, sretries, slog, scalls, sconnects, sdeletes, sexpect>>
  /\ UNCHANGED notSmb

(* disconnect: delete_session when a session is held; it returns, or       *)
(* raises and leaves self._session as it was.                              *)
Disconnect ==
  /\ spc = "idle"
  /\ scalls < MaxSmbCalls
  /\ scalls' = scalls + 1
  /\ IF ssession
     THEN /\ sdeletes' = sdeletes + 1
          /\ \/ /\ ssession' = FALSE
                /\ sreg' = FALSE
                /\ sres' = "disconnected"
                /\ sexpect' = FALSE
             \/ /\ sres' = "delete_failed"
                /\ sreg' \in BOOLEAN
                /\ UNCHANGED <<ssession, sexpect>>
     ELSE /\ sres' = "noop"
          /\ UNCHANGED <<ssession, sreg, sdeletes, sexpect>>
  /\ UNCHANGED <<sretries, slog, spc, sconnects>>
  /\ UNCHANGED notSmb

SmbNext ==
  \/ Connect
  \/ ConnectAttempt
  \/ ConnectSleep
  \/ ConnectGiveUp
  \/ Disconnect

(***************************************************************************)
(* MsgBoxMgr: non-blocking message dialogs, tracked in a bounded list.     *)
(***************************************************************************)
DEFAULT_MAX_MSG_BOX_NUM == 8

(* __init__: max_box_num or MsgBoxMgr.DEFAULT_MAX_MSG_BOX_NUM; None and 0  *)
(* both give the default.                                                  *)
MaxBoxNumOf(param) ==
  IF param = <<>> \/ param[1] = 0 THEN DEFAULT_MAX_MSG_BOX_NUM ELSE param[1]

(* show: the test that drops the request.                                  *)
IsFullOffByOne(list, max_box_num) == Len(list) > max_box_num

IsFull(list, max_box_num) == Len(list) >= max_box_num

(* list.remove: the list without the first entry equal to box.             *)
ListRemove(list, box) ==
  RemoveAt(list, CHOOSE i \in DOMAIN list :
                   list[i] = box /\ \A k \in 1..(i - 1) : list[k] # box)

(* No manager constructed.                                                 *)
MsgIdle ==
  /\ mbParam = <<>>
  /\ mbList = <<>>
  /\ mbCreated = 0
  /\ mbShows = 0
  /\ mbClosed = {}
  /\ mbRemovals = [d \in 1..MaxShows |-> 0]

(* The manager as constructed, with max_box_num None, 0 or a count.        *)
MsgInit ==
  /\ mbParam \in {<<>>} \cup {<<n>> : n \in 0..MaxBoxNum}
  /\ mbList = <<>>
  /\ mbCreated = 0
  /\ mbShows = 0
  /\ mbClosed = {}
  /\ mbRemovals = [d \in 1..MaxShows |-> 0]

(* show: dropped when the list is full, otherwise a new dialog is created, *)
(* connected, appended to the list and shown.                              *)
Show ==
  /\ mbShows < MaxShows
  /\ mbShows' = mbShows + 1
  /\ IF IsFull(mbList, MaxBoxNumOf(mbParam))
     THEN UNCHANGED <<mbList, mbCreated>>
     ELSE /\ mbCreated' = mbCreated + 1
          /\ mbList' = Append(mbList, mbCreated')
  /\ UNCHANGED <<mbParam, mbClosed, mbRemovals>>
  /\ UNCHANGED notMsg

(* ManagedMsgBox.done of dialog d: finished_with_box is emitted and        *)
(* on_message_box_closed removes d from the list when it is there.         *)
Done(d) ==
  /\ d \in 1..mbCreated
  /\ mbClosed' = mbClosed \cup {d}
  /\ IF d \in Range(mbList)
     THEN /\ mbList' = ListRemove(mbList, d)
          /\ mbRemovals' = [mbRemovals EXCEPT ![d] = @ + 1]
     ELSE UNCHANGED <<mbList, mbRemovals>>
  /\ UNCHANGED <<mbParam, mbCreated, mbShows>>
  /\ UNCHANGED notMsg

MsgNext == Show \/ \E d \in 1..MaxShows : Done(d)

(***************************************************************************)
(* GitRepo.clone and _construct_remote_repo_url_with_auth_info.  Both      *)
(* except clauses of clone log and re-raise, so an exception raised        *)
(* inside the try leaves clone unchanged.                                  *)
(***************************************************************************)
Schemes == {"http", "https", "ssh", "file", "none"}

Credentials == {"none", "empty", "set"}

(* _construct_remote_repo_url_with_auth_info: what the call does as a      *)
(* pair <<exception raised, value returned>>.  With both credentials given *)
(* a URL that is None has no startswith; with a credential missing the     *)
(* RuntimeError of line 54 is built but not raised, and the function       *)
(* returns None by falling off its end.                                    *)
ConstructRemoteRepoUrlWithAuthInfo(scheme, username, password) ==
  IF Truthy(username) /\ Truthy(password)
  THEN IF scheme = "none" THEN <<"AttributeError", "">>
       ELSE IF scheme \in {"http", "https"} THEN <<"", "auth">>
       ELSE <<"RuntimeError", "">>
  ELSE <<"", "none">>

(* git.Repo.clone_from: the exceptions a call can end with, "" for a       *)
(* clone that succeeds.  Handed None instead of a URL it cannot succeed.   *)
CloneFromOutcomes(remote_url) ==
  IF remote_url = "none" THEN {"GitCommandError", "TypeError"}
  ELSE {"", "GitCommandError"}

(* No clone called.                                                        *)
CloneIdle ==
  /\ clScheme = "none"
  /\ clUser = "none"
  /\ clPass = "none"
  /\ clpc = "idle"
  /\ clRemote = ""
  /\ clAttempted = FALSE
  /\ clErr = ""

(* A GitRepo as constructed.                                               *)
CloneInit ==
  /\ clScheme \in Schemes
  /\ clUser \in Credentials
  /\ clPass \in Credentials
  /\ clpc = "idle"
  /\ clRemote = ""
  /\ clAttempted = FALSE
  /\ clErr = ""

(* clone, line 60: the URL is constructed, or the exception of the         *)
(* construction leaves clone.                                              *)
CloneConstructUrl ==
  /\ clpc = "idle"
  /\ LET r == ConstructRemoteRepoUrlWithAuthInfo(clScheme, clUser, clPass)
     IN IF r[1] # ""
        THEN /\ clErr' = r[1]
             /\ clpc' = "raised"
             /\ UNCHANGED clRemote
        ELSE /\ clRemote' = r[2]
             /\ clpc' = "clone"
             /\ UNCHANGED clErr
  /\ UNCHANGED <<clScheme, clUser, clPass, clAttempted>>
  /\ UNCHANGED notClone

(* clone, line 65: git.Repo.clone_from(remote_url, local_repo_path).       *)
CloneFrom ==
  /\ clpc = "clone"
  /\ clAttempted' = TRUE
  /\ \E e \in CloneFromOutcomes(clRemote) :
       /\ clErr' = e
       /\ clpc' = IF e = "" THEN "returned" ELSE "raised"
  /\ UNCHANGED <<clScheme, clUser, clPass, clRemote>>
  /\ UNCHANGED notClone

CloneNext == CloneConstructUrl \/ CloneFrom

(***************************************************************************)
(* Packaging: scripts/package.py (its __main__ block) and                  *)
(* PackageUtil.pack_app.  Neither has a try statement: an exception raised *)
(* by a step ends the run at that step.                                    *)
(***************************************************************************)
FileStates == {"original", "injected", "reset"}

(* overwrite_version_info: project_config.py is rewritten, then            *)
(* version.rc.  The outcomes as <<exception, project_config.py,            *)
(* version.rc>>: both written, or an I/O error before the first or before  *)
(* the second write.                                                       *)
OverwriteVersionInfo(py, rc, value) ==
  {<<"", value, value>>, <<"OSError", py, rc>>, <<"OSError", value, rc>>}

(* run_command: the exception raised, "" for exit code 0.                  *)
RunCommand(returncode) == IF returncode # 0 THEN "RuntimeError" ELSE ""

(* No packaging run.                                                       *)
PkgIdle ==
  /\ pkDriver = "none"
  /\ pkUi = FALSE
  /\ pkPy = "original"
  /\ pkRc = "original"
  /\ pkpc = "idle"
  /\ pkInjected = FALSE
  /\ pkErr = ""

(* A driver about to run; the two files are as an earlier run left them.   *)
PkgInit ==
  /\ pkDriver \in {"script", "pack_app"}
  /\ pkUi \in BOOLEAN
  /\ pkDriver = "script" => pkUi = FALSE
  /\ pkPy \in FileStates
  /\ pkRc \in FileStates
  /\ pkpc = "idle"
  /\ pkInjected = FALSE
  /\ pkErr = ""

(* os.chdir, and for the script cleanup(), which runs clean.py through     *)
(* run_command.                                                            *)
PackStart ==
  /\ pkpc = "idle"
  /\ pkDriver \in {"script", "pack_app"}
  /\ \E returncode \in {0, 1} :
       LET err == IF pkDriver = "script" THEN RunCommand(returncode) ELSE ""
       IN /\ pkErr' = err
          /\ pkpc' = IF err # "" THEN "raised" ELSE "inject"
  /\ UNCHANGED <<pkDriver, pkUi, pkPy, pkRc, pkInjected>>
  /\ UNCHANGED notPkg

(* overwrite_version_info with the build version (package.py:118-119,      *)
(* package_util.py:121).                                                   *)
InjectVersion ==
  /\ pkpc = "inject"
  /\ \E o \in OverwriteVersionInfo(pkPy, pkRc, "injected") :
       /\ pkErr' = o[1]
       /\ pkPy' = o[2]
       /\ pkRc' = o[3]
       /\ pkInjected' = (pkInjected \/ o[2] # pkPy \/ o[3] # pkRc \/ o[1] = "")
       /\ pkpc' = IF o[1] # "" THEN "raised"
                  ELSE IF pkUi THEN "uic" ELSE "bundle"
  /\ UNCHANGED <<pkDriver, pkUi>>
  /\ UNCHANGED notPkg

(* pack_app with ui_files: overwrite_version_info once more, then          *)
(* pyside6-uic through run_command.                                        *)
RunUic ==
  /\ pkpc = "uic"
  /\ \E o \in OverwriteVersionInfo(pkPy, pkRc, "injected"), returncode \in {0, 1} :
       LET err == IF o[1] # "" THEN o[1] ELSE RunCommand(returncode)
       IN /\ pkErr' = err
          /\ pkPy' = o[2]
          /\ pkRc' = o[3]
          /\ pkpc' = IF err # "" THEN "raised" ELSE "bundle"
  /\ UNCHANGED <<pkDriver, pkUi, pkInjected>>
  /\ UNCHANGED notPkg

(* run_pyinstaller: the bundler through run_command.                       *)
RunPyinstaller ==
  /\ pkpc = "bundle"
  /\ \E returncode \in {0, 1} :
       /\ pkErr' = RunCommand(returncode)
       /\ pkpc' = IF RunCommand(returncode) # "" THEN "raised" ELSE "restore"
  /\ UNCHANGED <<pkDriver, pkUi, pkPy, pkRc, pkInjected>>
  /\ UNCHANGED notPkg

(* The restore step: overwrite_version_info with the empty version         *)
(* (package.py:124) or with the version cut back to number and stage       *)
(* (package_util.py:133-136).                                              *)
RestoreVersion ==
  /\ pkpc = "restore"
  /\ \E o \in OverwriteVersionInfo(pkPy, pkRc, "reset") :
       /\ pkErr' = o[1]
       /\ pkPy' = o[2]
       /\ pkRc' = o[3]
       /\ pkpc' = IF o[1] # "" THEN "raised" ELSE "returned"
  /\ UNCHANGED <<pkDriver, pkUi, pkInjected>>
  /\ UNCHANGED notPkg

PkgNext == PackStart \/ InjectVersion \/ RunUic \/ RunPyinstaller \/ RestoreVersion

(***************************************************************************)
(* Specifications: one per component, the others staying as constructed.   *)
(***************************************************************************)
ExecOff == params = <<>> /\ ExecIdle

InitExecutor == ExecInit /\ BackupIdle /\ PoolOff /\ LogIdle /\ RetryIdle /\ GitIdle /\ ArchIdle /\ SmbIdle /\ MsgIdle /\ CloneIdle /\ PkgIdle

SpecExecutor == InitExecutor /\ [][ExecNext]_vars

InitBackup == BackupInit /\ ExecOff /\ PoolOff /\ LogIdle /\ RetryIdle /\ GitIdle /\ ArchIdle /\ SmbIdle /\ MsgIdle /\ CloneIdle /\ PkgIdle

SpecBackup == InitBackup /\ [][BackupNext]_vars

InitPool == PoolInit /\ ExecOff /\ BackupIdle /\ LogIdle /\ RetryIdle /\ GitIdle /\ ArchIdle /\ SmbIdle /\ MsgIdle /\ CloneIdle /\ PkgIdle

SpecPool == InitPool /\ [][PoolNext]_vars

(* The process-based manager alone, with the scheduling the operating      *)
(* system gives: a worker process that can take a queue entry or finish a  *)
(* handler call does so, and a join returns once the processes exited.     *)
InitProcess == mgr = "process" /\ PoolIdle /\ ExecOff /\ BackupIdle /\ LogIdle /\ RetryIdle /\ GitIdle /\ ArchIdle /\ SmbIdle /\ MsgIdle /\ CloneIdle /\ PkgIdle

ProcessNext ==
  \/ GetResponse
  \/ StartWorkers
  \/ SendRequest
  \/ StopWorkers
  \/ JoinWorkers
  \/ \E w \in WorkerIds : WorkerGet(w)
  \/ \E w \in WorkerIds : WorkerHandle(w)

InitLog == LogIdle /\ ExecOff /\ BackupIdle /\ PoolOff /\ RetryIdle /\ GitIdle /\ ArchIdle /\ SmbIdle /\ MsgIdle /\ CloneIdle /\ PkgIdle

SpecLog == InitLog /\ [][LogNext]_vars

InitRetry == RetryInit /\ ExecOff /\ BackupIdle /\ PoolOff /\ LogIdle /\ GitIdle /\ ArchIdle /\ SmbIdle /\ MsgIdle /\ CloneIdle /\ PkgIdle

SpecRetry == InitRetry /\ [][RetryNext]_vars

InitGit == GitInit /\ ExecOff /\ BackupIdle /\ PoolOff /\ LogIdle /\ RetryIdle /\ ArchIdle /\ SmbIdle /\ MsgIdle /\ CloneIdle /\ PkgIdle

SpecGit == InitGit /\ [][GitNext]_vars

InitArchiver == ArchInit /\ ExecOff /\ BackupIdle /\ PoolOff /\ LogIdle /\ RetryIdle /\ GitIdle /\ SmbIdle /\ MsgIdle /\ CloneIdle /\ PkgIdle

SpecArchiver == InitArchiver /\ [][ArchNext]_vars

InitSmb == SmbInit /\ ExecOff /\ BackupIdle /\ PoolOff /\ LogIdle /\ RetryIdle /\ GitIdle /\ ArchIdle /\ MsgIdle /\ CloneIdle /\ PkgIdle

SpecSmb == InitSmb /\ [][SmbNext]_vars

InitMsgBox == MsgInit /\ ExecOff /\ BackupIdle /\ PoolOff /\ LogIdle /\ RetryIdle /\ GitIdle /\ ArchIdle /\ SmbIdle /\ CloneIdle /\ PkgIdle

SpecMsgBox == InitMsgBox /\ [][MsgNext]_vars

InitClone == CloneInit /\ ExecOff /\ BackupIdle /\ PoolOff /\ LogIdle /\ RetryIdle /\ GitIdle /\ ArchIdle /\ SmbIdle /\ MsgIdle /\ PkgIdle

SpecClone == InitClone /\ [][CloneNext]_vars

InitPackage == PkgInit /\ ExecOff /\ BackupIdle /\ PoolOff /\ LogIdle /\ RetryIdle /\ GitIdle /\ ArchIdle /\ SmbIdle /\ MsgIdle /\ CloneIdle

SpecPackage == InitPackage /\ [][PkgNext]_vars

FairSpecProcess ==
  /\ InitProcess
  /\ [][ProcessNext]_vars
  /\ WF_vars(\E w \in WorkerIds : WorkerGet(w))
  /\ WF_vars(\E w \in WorkerIds : WorkerHandle(w))
  /\ WF_vars(JoinWorkers)

(***************************************************************************)
(* Claims about ThreadPoolTaskExecutor                                     *)
(***************************************************************************)
DistinctParams == \A i, j \in Tasks : i # j => params[i] # params[j]

(* C1: with pairwise-distinct parameters, whatever the completion order,  *)
(* a returned results array has length N and element i is the result of   *)
(* the i-th submitted task.                                                *)
C1_OrderedResults ==
  (epc = "returned" /\ DistinctParams) =>
    /\ Len(results) = TaskCount
    /\ \A i \in Tasks : results[i] = TaskResult(i)

(* A run of three distinct tasks that completed in reverse order returned. *)
C1_Witness ==
  /\ epc = "returned"
  /\ DistinctParams
  /\ TaskCount = 3
  /\ yielded = <<3, 2, 1>>

(* C2: when a task of the batch raised or returned a rejected (None)      *)
(* result, concurrent_run_tasks does not return a results array: it ends  *)
(* by raising.                                                             *)
C2_FailureAborts ==
  /\ epc = "returned" => \A i \in Tasks : fout[i] = "ok"
  /\ (epc \in {"returned", "raised"} /\ \E i \in Tasks : fout[i] \in {"raise", "none"})
       => epc = "raised"

(* A batch where one task returned None and the others succeeded raised.  *)
C2_Witness ==
  /\ epc = "raised"
  /\ TaskCount >= 2
  /\ \E i \in Tasks : fout[i] = "none"
  /\ \E i \in Tasks : fout[i] = "ok" /\ i \in Range(yielded)

(***************************************************************************)
(* Claims about DataBackup / AppDataBackup                                 *)
(***************************************************************************)
StopHookSucceeded == "stop_ok" \in Range(trace)

(* The start hook was called after a step raised, i.e. by the except      *)
(* clause, before run() let the exception out.                             *)
StartInvokedAfterRaise ==
  \E i, j \in DOMAIN trace :
    i < j /\ trace[i] = "raise" /\ trace[j] \in {"start_ok", "start_fail"}

(* C3 as stated: when the stop hook succeeded and run() ends with an      *)
(* error, the start hook was invoked before the error propagated and the  *)
(* application is not left stopped.                                        *)
C3_AsStated ==
  (bkpc = "raised" /\ StopHookSucceeded) =>
    (StartInvokedAfterRaise /\ appState # "stopped")

(* C3 amended: when the stop hook succeeded and run() ends with an error, *)
(* a configured start hook was invoked after the failing step and before  *)
(* the error propagated; the application is left stopped only when no     *)
(* start hook is configured or that invocation itself raised.              *)
C3_RestartOnFailure ==
  (bkpc = "raised" /\ StopHookSucceeded) =>
    /\ hasStart => StartInvokedAfterRaise
    /\ appState = "stopped" =>
         (~hasStart \/ trace[Len(trace)] = "start_fail")

(* The compression failed after a successful stop, and the except clause  *)
(* restarted the application.                                              *)
C3_Witness ==
  /\ bkpc = "raised"
  /\ StopHookSucceeded
  /\ bkErr = "RuntimeError"
  /\ trace[Len(trace)] = "start_ok"
  /\ appState = "running"

Matching(dir) == {f \in dir : f.match}

Deleted == (files0 \cup {NewBackup}) \ files

(* The case of C4: run() returned with max_backups_num = N and more than  *)
(* N entries with the prefix present before the run.                       *)
RotationCase ==
  /\ bkpc = "returned"
  /\ maxBackups # <<>>
  /\ Cardinality(Matching(files0)) > maxBackups[1]

OldestDeleted ==
  /\ Deleted \subseteq Matching(files0 \cup {NewBackup})
  /\ \A d \in Deleted, r \in Matching(files) : d.mtime <= r.mtime

NewestIsNew ==
  /\ NewBackup \in files
  /\ \A r \in Matching(files) : r.mtime <= NewBackup.mtime

(* C4 as stated: exactly N entries with the prefix remain, the deleted    *)
(* ones are the oldest, and the newest remaining one is the new backup.   *)
C4_AsStated ==
  RotationCase =>
    /\ Cardinality(Matching(files)) = maxBackups[1]
    /\ OldestDeleted
    /\ NewestIsNew

(* C4 amended: exactly N entries with the prefix remain and the deleted   *)
(* ones are the oldest; for N >= 1 the newest remaining one is the new    *)
(* backup, and for N = 0 the new backup is deleted with the others.       *)
C4_Rotation ==
  RotationCase =>
    /\ Cardinality(Matching(files)) = maxBackups[1]
    /\ OldestDeleted
    /\ maxBackups[1] >= 1 => NewestIsNew
    /\ maxBackups[1] = 0 => NewBackup \notin files

(* Three old backups, N = 2: the two oldest went, the new one stayed.     *)
C4_Witness ==
  /\ RotationCase
  /\ maxBackups = <<2>>
  /\ Cardinality(Matching(files0)) = 3
  /\ Cardinality(Deleted) = 2
  /\ NewBackup \in files
  /\ OtherEntry \in files

(***************************************************************************)
(* Claims about the task-pool managers                                     *)
(***************************************************************************)
(* Every response put so far, in the order of the puts.                    *)
AllResponses == received \o responseQueue

(* Number of responses put so far that carry task id k.                    *)
ResponsesWithId(k) ==
  Cardinality({i \in DOMAIN AllResponses :
                 "id" \in DOMAIN AllResponses[i] /\ AllResponses[i]["id"] = k})

(* Call n of submit_task was accepted, has run to its end and its work     *)
(* item is done.                                                           *)
CallSettled(n) ==
  /\ futures[n].state = "finished"
  /\ \A c \in Callers : cpc[c] = "addcb" => cmsg[c]["data"] # n

(* C5: in the thread-based manager a submission never has two responses    *)
(* on the response queue, and has exactly one once its handler returned or *)
(* raised and submit_task is through; a call that queued no work item has  *)
(* none.                                                                   *)
C5_ExactlyOneResponse ==
  mgr = "thread" =>
    /\ \A n \in 1..MaxRequests :
         /\ futures[n].state # "none" => ResponsesWithId(futures[n].id) <= 1
         /\ CallSettled(n) => ResponsesWithId(futures[n].id) = 1
    /\ Len(AllResponses) <= Cardinality({n \in 1..MaxRequests : futures[n].state # "none"})

(* Two submissions are settled, one whose handler raised and one whose     *)
(* handler returned, each with its one response.                           *)
C5_Witness ==
  /\ mgr = "thread"
  /\ CallSettled(1) /\ CallSettled(2)
  /\ Len(AllResponses) = 2
  /\ \E i, j \in DOMAIN AllResponses :
       "error" \in DOMAIN AllResponses[i] /\ "result" \in DOMAIN AllResponses[j]

(* A response carries id and type and exactly one of result and error.     *)
WellFormedResponse(r) ==
  /\ {"id", "type"} \subseteq DOMAIN r
  /\ ("result" \in DOMAIN r) # ("error" \in DOMAIN r)
  /\ r["id"] \in 1..taskId
  /\ r["type"] \in Registered

(* C6: every response put on the response queue, by either manager,        *)
(* carries the id and the type of its request and exactly one of result    *)
(* and error.                                                              *)
C6_ResponseShape ==
  \A i \in DOMAIN AllResponses : WellFormedResponse(AllResponses[i])

Rejected(c) == cres[c].outcome \in {"ValueError", "RuntimeError"}

(* The ids handed out are 1, 2, 3, ... in this order: each is greater than *)
(* all before it and none repeats.                                         *)
IdsIncrease ==
  /\ \A i \in DOMAIN assigned : assigned[i] = i
  /\ taskId = Len(assigned)

(* No two work items of the thread-based manager hold the same id.         *)
IdsUnique ==
  \A n1, n2 \in 1..MaxRequests :
    (n1 # n2 /\ futures[n1].state # "none" /\ futures[n2].state # "none")
      => futures[n1].id # futures[n2].id

(* C7 as stated: ids increase without repeats under every interleaving,    *)
(* and a rejected submission consumes no id.                               *)
C7_AsStated ==
  /\ IdsIncrease
  /\ IdsUnique
  /\ \A c \in Callers : Rejected(c) => ~cres[c].consumed

(* C7 amended: ids increase without repeats under every interleaving; a    *)
(* submission rejected by a check of submit_task or send_request consumes  *)
(* no id, and the only rejected submission that consumes one is a          *)
(* submit_task whose executor has been shut down.                          *)
C7_MonotonicIds ==
  /\ IdsIncrease
  /\ IdsUnique
  /\ \A c \in Callers :
       (Rejected(c) /\ cres[c].consumed) =>
         (mgr = "thread" /\ tpShutdown /\ cres[c].outcome = "RuntimeError")

(* Two threads were inside submit_task at once and both were accepted,     *)
(* with ids 1 and 2.                                                       *)
C7_Witness ==
  /\ mgr = "thread"
  /\ assigned = <<1, 2>>
  /\ cres["t1"].outcome = "accepted" /\ cres["t2"].outcome = "accepted"
  /\ cres["t1"].id # cres["t2"].id
  /\ futures[1].id = 2

(* stop_workers has returned and start_workers has not been called since.  *)
StopDone == mgr = "process" /\ mpc = "ready" /\ stopped

NoSentinelLeft == \A i \in DOMAIN requestQueue : ~IsSentinel(requestQueue[i])

(* Work left before the joins of stop_workers can return: queue entries    *)
(* not yet taken and handler calls not yet finished.                       *)
StopMeasure ==
  2 * Len(requestQueue) + Cardinality({w \in WorkerIds : wstate[w] = "busy"})

(* C8: stop_workers terminates: while it waits, a worker can always take a *)
(* step or the joins can return, and every step brings the joins closer.   *)
(* It enqueues one termination signal per worker of the pool (n for every  *)
(* start_workers), every worker takes exactly one and exits, the pool is   *)
(* empty, no signal is left in the request queue and every accepted        *)
(* request has its response.                                               *)
C8_StopTerminates ==
  /\ [](mpc = "joining" =>
          /\ \/ ENABLED JoinWorkers
             \/ ENABLED (\E w \in WorkerIds : WorkerGet(w) \/ WorkerHandle(w))
          /\ sentinelsPut = Len(pool)
          /\ Len(pool) % NumWorkers = 0
          /\ \A w \in WorkerIds : sentinelsGot[w] <= 1)
  /\ [][(mpc = "joining" /\ mpc' = "joining") => StopMeasure' < StopMeasure]_vars
  /\ [](StopDone =>
          /\ pool = <<>>
          /\ NoSentinelLeft
          /\ \A w \in WorkerIds : wstate[w] \in {"unborn", "exited"}
          /\ \A w \in WorkerIds : sentinelsGot[w] <= 1
          /\ Cardinality({w \in WorkerIds : sentinelsGot[w] = 1}) = sentinelsPut
          /\ Len(AllResponses) = taskId)

(* The same termination, stated on behaviours: under fair scheduling of    *)
(* the worker processes a stop_workers that has begun returns.             *)
StopReturns == (mpc = "joining") ~> StopDone

(* Two requests were sent to two workers and answered, and stop_workers    *)
(* has returned after both workers took their termination signal.          *)
C8_Witness ==
  /\ StopDone
  /\ spawned = NumWorkers
  /\ taskId = 2
  /\ sentinelsPut = NumWorkers
  /\ \A w \in 1..NumWorkers : sentinelsGot[w] = 1 /\ wstate[w] = "exited"
  /\ Len(AllResponses) = 2

(***************************************************************************)
(* Claims about LogUtil                                                    *)
(***************************************************************************)
(* C9: under every interleaving of get_logger calls the logger is built    *)
(* at most once, one log file and one file sink are created for it, and    *)
(* every call that has returned returned that one logger.                  *)
C9_BuiltOnce ==
  /\ built <= 1
  /\ filesCreated = built
  /\ loggerSet <=> built = 1
  /\ Cardinality({i \in DOMAIN logHandlers : logHandlers[i] = "file"}) <= built
  /\ \A t \in LogThreads : lret[t] = "logger" => (loggerSet /\ filesCreated = 1)

(* Both threads have called get_logger; the second one found the logger    *)
(* of the first.                                                           *)
C9_Witness ==
  /\ \A t \in LogThreads : lret[t] = "logger"
  /\ built = 1
  /\ \E t \in LogThreads : lsaw[t]
  /\ \E t \in LogThreads : ~lsaw[t]

(* C10: once get_logger has built the logger, no sequence of               *)
(* clear_console_handle and add_console_handle calls detaches the file     *)
(* sink: it stays in the handler list.                                     *)
C10_FileSinkStays ==
  (loggerSet /\ \A t \in LogThreads : lpc[t] = "idle") =>
    \E i \in DOMAIN logHandlers : logHandlers[i] = "file"

(***************************************************************************)
(* Claims about FrameworkUtil                                              *)
(***************************************************************************)
RetryDone == rpc \in {"returned", "raised"}

(* Every failure func has raised so far is one the call retries on.        *)
OnlyRetryableFailures ==
  \A i \in DOMAIN rlog : ~rlog[i].ok => IsRetryable(rexc, rlog[i].kind)

(* The sleeps so far: one after each invocation that was followed by       *)
(* another pass, none after the last invocation of a finished call.        *)
SleptBetweenAttempts ==
  /\ \A i \in DOMAIN rslept : rslept[i] = i
  /\ Len(rslept) = IF rpc = "call" THEN rattempt
                   ELSE IF rattempt = 0 THEN 0 ELSE rattempt - 1

(* C11: with retries = n >= 1 and only retryable failures, func is invoked *)
(* at most n times and never again after a success; a call that returns    *)
(* returns the value of its first successful invocation; a call that       *)
(* raises has made n invocations and raises the failure of the n-th; there *)
(* is one sleep between consecutive invocations and none after the last.   *)
C11_RetryUntilSuccess ==
  (rretries >= 1 /\ rpc # "off" /\ OnlyRetryableFailures) =>
    /\ rattempt <= rretries
    /\ Len(rlog) = rattempt
    /\ \A i \in DOMAIN rlog : rlog[i].ok => (i = Len(rlog) /\ rpc = "returned")
    /\ rpc = "returned" => (rattempt >= 1 /\ rout = rlog[rattempt] /\ rout.ok)
    /\ rpc = "raised" =>
         (rattempt = rretries /\ rout = rlog[rretries] /\ ~rout.ok)
    /\ SleptBetweenAttempts

(* A call that failed n times and one that succeeded on its third try.     *)
C11_Witness ==
  /\ rretries = 3
  /\ OnlyRetryableFailures
  /\ \/ rpc = "raised" /\ rattempt = 3 /\ rslept = <<1, 2>>
     \/ rpc = "returned" /\ rattempt = 3 /\ rslept = <<1, 2>>

(* C12: with a set of retryable kinds in force, a failure of another kind  *)
(* ends the call at once, on whichever attempt: it is the last invocation, *)
(* it is the failure raised, and no sleep follows it.                      *)
C12_NonRetryableRaisesAtOnce ==
  \A i \in DOMAIN rlog :
    (rexc /\ ~rlog[i].ok /\ rlog[i].kind = "other") =>
      /\ i = Len(rlog)
      /\ rattempt = i
      /\ rpc = "raised"
      /\ rout = rlog[i]
      /\ rslept = [k \in 1..(i - 1) |-> k]

(* A failure of another kind on the second of more attempts, in either     *)
(* function.                                                               *)
C12_Witness ==
  /\ rexc
  /\ rretries >= 3
  /\ rpc = "raised"
  /\ Len(rlog) = 2
  /\ rlog[2].kind = "other"

(***************************************************************************)
(* Claims about the Git commit helpers                                     *)
(***************************************************************************)
GitDone == gpc = "done"

(* The commits the call has created, oldest first.                         *)
NewCommits == SubSeq(gcommits, gbefore.commits + 1, Len(gcommits))

(* C13: a finished GitRepo.commit has created at most one commit, has      *)
(* returned true exactly when it created one, and on a repository that    *)
(* had no commits it has created exactly one.                              *)
C13_OneCommitPerCall ==
  (gclass = "repo" /\ GitDone) =>
    /\ Len(NewCommits) <= 1
    /\ gret = Returned("bool", Len(NewCommits) = 1)
    /\ gbefore.commits = 0 => Len(NewCommits) = 1

(* C14: a finished GitCommitter.commit_changes has returned the number of  *)
(* commits it created, and with nothing changed in the working tree it has *)
(* created none and returned 0, with and without a grouping interval.      *)
C14_NothingChangedNoCommit ==
  (gclass = "committer" /\ GitDone) =>
    /\ gret = Returned("int", Len(NewCommits))
    /\ gbefore.changed = {} => (Len(NewCommits) = 0 /\ gret.val = 0)

(* The groups laid end to end.                                             *)
RECURSIVE Flatten(_)
Flatten(groups) ==
  IF groups = <<>> THEN <<>> ELSE groups[1] \o Flatten(SubSeq(groups, 2, Len(groups)))

(* The number of the group holding position i of the flattened list.       *)
RECURSIVE GroupOf(_, _)
GroupOf(groups, i) ==
  IF i <= Len(groups[1]) THEN 1
  ELSE 1 + GroupOf(SubSeq(groups, 2, Len(groups)), i - Len(groups[1]))

Grouped == gpc = "commits" /\ gnext = 1

(* C15: the groups are non-empty and, end to end, list every changed file  *)
(* once, ascending by modification time; two adjacent files of that list   *)
(* are in the same group exactly when their times differ by no more than   *)
(* the threshold.                                                          *)
C15_GroupsPartitionByGap ==
  Grouped =>
    LET flat == Flatten(ggroups)
        input == GetRepoChangesFiles(gwork, guntracked)
    IN /\ \A g \in DOMAIN ggroups : ggroups[g] # <<>>
       /\ Len(flat) = Len(input)
       /\ {flat[i] : i \in DOMAIN flat} = {input[i] : i \in DOMAIN input}
       /\ \A i \in 1..(Len(flat) - 1) :
            /\ flat[i][2] <= flat[i + 1][2]
            /\ (GroupOf(ggroups, i) = GroupOf(ggroups, i + 1))
                 <=> (flat[i + 1][2] - flat[i][2] <= gdiff[1])

(* Four files with times 0, 1, 3, 4 listed out of time order, threshold 1: *)
(* the two groups {0, 1} and {3, 4}.                                       *)
C15_Witness ==
  /\ Grouped
  /\ gdiff = <<1>>
  /\ Len(ggroups) = 2
  /\ Len(ggroups[1]) = 2
  /\ Len(ggroups[2]) = 2
  /\ <<ggroups[1][1][2], ggroups[1][2][2]>> = <<0, 1>>
  /\ <<ggroups[2][1][2], ggroups[2][2][2]>> = <<3, 4>>
  /\ ggroups[1][1][1] > ggroups[1][2][1]

(* C16: the k-th commit of a run is the commit of the k-th group: its date *)
(* is the modification time of the last file of the group, which is the    *)
(* latest of the group, and is not earlier than the date of any commit     *)
(* created before it in the run; the count returned is the number of       *)
(* groups.                                                                 *)
C16_CommitsAscending ==
  (gclass = "committer" /\ gdiff # <<>> /\ ggroups # <<>>) =>
    /\ Len(NewCommits) = gnext - 1
    /\ Len(NewCommits) <= Len(ggroups)
    /\ \A k \in DOMAIN NewCommits :
         /\ NewCommits[k].date.epoch = ggroups[k][Len(ggroups[k])][2]
         /\ \A i \in DOMAIN ggroups[k] : ggroups[k][i][2] <= NewCommits[k].date.epoch
         /\ PathsOf(ggroups[k]) \subseteq NewCommits[k].files
         /\ \A j \in 1..(k - 1) : NewCommits[j].date.epoch <= NewCommits[k].date.epoch
    /\ GitDone => (gret = Returned("int", Len(ggroups)) /\ Len(NewCommits) = Len(ggroups))

(* A finished run with two commits of different dates, the first one for   *)
(* a group of two files of different times.                                *)
C16_Witness ==
  /\ gclass = "committer"
  /\ GitDone
  /\ Len(ggroups) = 2
  /\ Len(NewCommits) = 2
  /\ NewCommits[1].date.epoch < NewCommits[2].date.epoch
  /\ Len(ggroups[1]) = 2
  /\ ggroups[1][1][2] < ggroups[1][2][2]

(***************************************************************************)
(* Claims about GitArchiver                                                *)
(***************************************************************************)
Invoked(step) == \E i \in DOMAIN atrace : atrace[i] = step

AllPresent ==
  /\ aparam.url = "set"
  /\ aparam.username = "set"
  /\ aparam.password = "set"
  /\ aparam.push_after_commit = "true"

(* The push decision of the target has been taken.                         *)
PushDecided == apc \in {"post", "returned"} \/ Invoked("push")

(* C17: for a target, push is invoked exactly when the commit step         *)
(* returned a count above zero and URL, user name, password and the push   *)
(* flag are all present; it is invoked at most once, after the commit      *)
(* step, and never after a commit step that returned zero.                 *)
C17_PushIffCommitted ==
  /\ PushDecided => (Invoked("push") <=> (acommits > 0 /\ AllPresent))
  /\ Invoked("push") => acommits # 0
  /\ \A i, j \in DOMAIN atrace :
       (atrace[i] = "push" /\ atrace[j] = "push") => i = j
  /\ \A i \in DOMAIN atrace :
       atrace[i] = "push" => \E j \in 1..(i - 1) : atrace[j] = "commit"

(* A target that pushed after two commits, its user name taken from the    *)
(* global section, and has returned.                                       *)
C17_Witness ==
  /\ apc = "returned"
  /\ acommits = 2
  /\ amap.repo_username = "none"
  /\ atrace = <<"pre_init_repo", "init_repo", "pre_commit", "commit", "push", "post_push">>

(* A target with everything present whose commit step made no commit, and  *)
(* which returned without a push.                                          *)
C17_WitnessNoPush ==
  /\ apc = "returned"
  /\ acommits = 0
  /\ AllPresent
  /\ ~Invoked("push")

(***************************************************************************)
(* Claims about the order of the backup lifecycle                          *)
(***************************************************************************)
Lifecycle ==
  <<"check_params", "prepare_env", "pre_backup", "do_backup", "check_backup",
    "rotate", "post_backup">>

IsLifecycleStep(e) == \E i \in DOMAIN Lifecycle : Lifecycle[i] = e

StepsRun == SelectSeq(trace, IsLifecycleStep)

(* C18: the lifecycle steps run so far are a beginning of check_params,    *)
(* prepare_env, pre_backup, do_backup, check_backup, rotate, post_backup,  *)
(* in this order and each once; after a step has raised no step runs; run  *)
(* has returned the new backup path only when all seven have run and none  *)
(* has raised.                                                             *)
C18_LifecycleOrder ==
  /\ Len(StepsRun) <= Len(Lifecycle)
  /\ StepsRun = SubSeq(Lifecycle, 1, Len(StepsRun))
  /\ \A i \in DOMAIN trace :
       trace[i] = "raise" =>
         /\ bkpc \in {"except", "raised"}
         /\ \A j \in DOMAIN trace : j > i => ~IsLifecycleStep(trace[j])
  /\ bkpc = "returned" =>
       /\ StepsRun = Lifecycle
       /\ \A i \in DOMAIN trace : trace[i] # "raise"
       /\ bkPath = NewBackup.id
  /\ bkpc # "returned" => (bkPath # 0 => Len(StepsRun) >= 4)

(* A run that returned after the seven steps, having deleted a backup.     *)
C18_Witness ==
  /\ bkpc = "returned"
  /\ StepsRun = Lifecycle
  /\ files0 \ files # {}

(* A run whose check_backup raised: rotate and post_backup did not run.    *)
C18_WitnessRaise ==
  /\ bkpc = "raised"
  /\ Len(StepsRun) = 5
  /\ bkErr = "BadZipFile"

(***************************************************************************)
(* Claims about an unset retention count                                   *)
(***************************************************************************)
(* C19: a run with an existing source, a supported format and no           *)
(* max_backups_num does not stop at check_params: it never raises out of   *)
(* that step, and once finished without a filesystem failure it has        *)
(* created the new backup and deleted no entry.                            *)
C19_UnsetRetentionCompletes ==
  (srcExists /\ maxBackups = <<>> /\ fmt = "zip") =>
    /\ ~(bkpc \in {"except", "raised"} /\ StepsRun = <<"check_params">>)
    /\ bkpc = "returned" => (NewBackup \in files /\ files0 \subseteq files)

C20_WitnessGiveUp ==
  /\ sres = "RuntimeError"
  /\ slog = <<"failed", "failed", "failed">>
  /\ ~ssession

(***************************************************************************)
(* Claims about the order of responses and the life of the workers         *)
(***************************************************************************)
(* All submissions so far came from one caller, one after another.         *)
SubmittedInTurn == cmsg["t2"] = <<>> /\ cres["t2"] = NoCall

(* Every handler so far returned a result.                                 *)
AllSucceeded ==
  \A i \in DOMAIN AllResponses : "result" \in DOMAIN AllResponses[i]

(* The response a handler that succeeds gives for an accepted message.     *)
ResponseOf(m) == [id |-> m["id"], type |-> m["type"], result |-> HandlerResult(m)]

LiveWorkers == {w \in WorkerIds : wstate[w] \in {"idle", "busy"}}

(* A step that is one call of send_request.                                *)
SendRequestStep == mgr = "process" /\ calls' = calls + 1

(* C22: in the process-based manager send_request raises a runtime error   *)
(* and enqueues nothing whenever no workers are running, which is before   *)
(* the first start_workers and after stop_workers until the next           *)
(* start_workers; a stop_workers that follows another enqueues nothing,    *)
(* returns at once and changes nothing.                                    *)
C22_NoWorkersNoRequest ==
  /\ [][(SendRequestStep /\ LiveWorkers = {}) =>
          /\ cres'[MainCaller].outcome = "RuntimeError"
          /\ requestQueue' = requestQueue
          /\ taskId' = taskId
          /\ submitted' = submitted]_vars
  /\ []((mgr = "process" /\ mpc = "ready") =>
          /\ (LiveWorkers = {}) <=> (pool = <<>>)
          /\ stopped => pool = <<>>
          /\ spawned = 0 => pool = <<>>)
  /\ [][(mgr = "process" /\ mpc = "ready" /\ mpc' = "joining" /\ pool = <<>>) =>
          /\ requestQueue' = requestQueue
          /\ sentinelsPut' = 0
          /\ pool' = <<>>]_vars
  /\ [][(mgr = "process" /\ mpc = "joining" /\ mpc' = "ready" /\ sentinelsPut = 0 /\ stopped) =>
          UNCHANGED <<taskId, responseQueue, received, requestQueue, pool, stopped,
                      wstate, wmsg, spawned>>]_vars

(* After start_workers and two stop_workers in a row a send_request was    *)
(* refused with a runtime error and the request queue is empty.            *)
C22_Witness ==
  /\ mgr = "process" /\ mpc = "ready"
  /\ spawned = NumWorkers
  /\ stopped /\ sentinelsPut = 0
  /\ cres[MainCaller].outcome = "RuntimeError"
  /\ requestQueue = <<>>
  /\ taskId = 0

(* A send_request before the first start_workers was refused.              *)
C22_WitnessBeforeStart ==
  /\ mgr = "process" /\ spawned = 0 /\ ~stopped
  /\ cres[MainCaller].outcome = "RuntimeError"
  /\ requestQueue = <<>>

(* C30: in the process-based manager a handler that raises does not end    *)
(* its worker: the handler call, whether it returns or raises, puts        *)
(* exactly one response on the response queue (an error response when it   *)
(* raised) and leaves the worker waiting for the next request; a worker    *)
(* ends only by taking a termination signal, so between start_workers and  *)
(* stop_workers every process of the pool is alive: num_workers of them    *)
(* for every start_workers since the last stop_workers.                    *)
C30_WorkerSurvivesError ==
  /\ [][\A w \in WorkerIds :
          (wstate[w] = "busy" /\ wstate'[w] # "busy") =>
            /\ wstate'[w] = "idle"
            /\ Len(AllResponses') = Len(AllResponses) + 1
            /\ SubSeq(AllResponses', 1, Len(AllResponses)) = AllResponses]_vars
  /\ [][\A w \in WorkerIds :
          (wstate[w] # "exited" /\ wstate'[w] = "exited") =>
            /\ wstate[w] = "idle"
            /\ requestQueue # <<>> /\ IsSentinel(Head(requestQueue))
            /\ mpc = "joining"]_vars
  /\ []((mgr = "process" /\ mpc = "ready") =>
          /\ LiveWorkers = Range(pool)
          /\ Cardinality(LiveWorkers) = Len(pool)
          /\ Len(pool) % NumWorkers = 0
          /\ (spawned = NumWorkers /\ ~stopped) => Cardinality(LiveWorkers) = NumWorkers)

(* Two requests were sent to the two workers of one start_workers, the     *)
(* handler raised for both, both error responses are there and both        *)
(* workers are alive and waiting.                                          *)
C30_Witness ==
  /\ mgr = "process" /\ mpc = "ready" /\ ~stopped
  /\ spawned = NumWorkers
  /\ Len(AllResponses) = 2
  /\ \A i \in DOMAIN AllResponses : "error" \in DOMAIN AllResponses[i]
  /\ \A w \in 1..NumWorkers : wstate[w] = "idle"
  /\ requestQueue = <<>>

(***************************************************************************)
(* Further claims about ThreadPoolTaskExecutor                             *)
(***************************************************************************)
ExecEnded == epc \in {"returned", "raised"}

(* C23: when concurrent_run_tasks returns or raises, the pool has been     *)
(* torn down and every submitted task has finished; after a task failed    *)
(* the pool stays up, so the tasks still queued are started and run, and   *)
(* the error leaves concurrent_run_tasks only when all of them are done.   *)
C23_DrainedBeforeExit ==
  /\ [](ExecEnded => (~poolUp /\ \A i \in Tasks : fstate[i] = "done"))
  /\ [](epc \in {"loop", "exit_raise", "exit_return"} => poolUp)
  /\ [][\A i \in Tasks :
          /\ fstate[i] = "done" => fstate'[i] = "done"
          /\ fstate[i] = "running" => fstate'[i] \in {"running", "done"}
          /\ fstate[i] = "queued" => fstate'[i] \in {"queued", "running"}]_vars
  /\ [](epc = "exit_raise" =>
          \/ \A i \in Tasks : fstate[i] = "done"
          \/ ENABLED (WorkerStart \/ WorkerFinish))

(* The first task to complete failed while the other two had not finished; *)
(* the call raised after both of them had run, unseen by the loop.         *)
C23_Witness ==
  /\ epc = "raised"
  /\ TaskCount = 3
  /\ Len(yielded) = 1
  /\ fout[yielded[1]] = "raise"
  /\ \A i \in Tasks : i # yielded[1] => fout[i] = "ok"
  /\ ~poolUp

(* C27: when two or more task parameters compare equal, a run in which     *)
(* every task succeeds returns an array none of whose N slots is unset.    *)
C27_NoSlotUnset ==
  (epc = "returned" /\ ~DistinctParams /\ \A i \in Tasks : fout[i] = "ok") =>
    \A i \in Tasks : results[i] # NoneVal

(***************************************************************************)
(* Claims about what a failing backup run leaves behind                    *)
(***************************************************************************)
(* check_backup has run and returned: the new archive passed the test.     *)
CheckPassed ==
  \E i \in DOMAIN trace :
    /\ trace[i] = "check_backup"
    /\ i < Len(trace) => trace[i + 1] # "raise"

(* The lifecycle step that raised, "" when none has.                       *)
RaisedIn == IF bkErr = "" \/ StepsRun = <<>> THEN "" ELSE StepsRun[Len(StepsRun)]

(* C28: a run deletes no entry that was in the destination directory       *)
(* before it unless the new archive has passed check_backup in this run,   *)
(* and then only entries that start with the backup prefix; when           *)
(* check_params, prepare_env, pre_backup, do_backup or check_backup        *)
(* raises, every entry that was there before the run is still there.       *)
C28_NoDeletionBeforeCheck ==
  /\ files0 \ files # {} =>
       /\ CheckPassed
       /\ "rotate" \in Range(trace)
       /\ \A f \in files0 \ files : f.match
  /\ RaisedIn \in {"check_params", "prepare_env", "pre_backup", "do_backup",
                    "check_backup"} => files0 \subseteq files
  /\ files \subseteq files0 \cup {NewBackup}

(* Three backups were there, one was to be kept, and the test of the new   *)
(* archive failed: the run raised and the three are still there, with the  *)
(* new archive beside them.                                                *)
C28_Witness ==
  /\ bkpc = "raised"
  /\ RaisedIn = "check_backup"
  /\ bkErr = "BadZipFile"
  /\ maxBackups = <<1>>
  /\ Cardinality({f \in files0 : f.match}) = 3
  /\ files = files0 \cup {NewBackup}

(* C29: with an existing source, a valid retention count and any format    *)
(* compress accepts (zip, tar.gz, tar.bz2, tar.xz), a run is never stopped *)
(* by a step rejecting the format: only a filesystem or hook failure keeps *)
(* it from running through rotation and returning the new backup path.     *)
C29_EveryAcceptedFormatCompletes ==
  (srcExists /\ maxBackups # <<>> /\ CheckParams(srcExists, maxBackups) = ""
     /\ Compress(srcExists, fmt) = "") =>
    ~(bkpc \in {"except", "raised"} /\ bkErr = "NotImplementedError")

(***************************************************************************)
(* Claims about MsgBoxMgr                                                  *)
(***************************************************************************)
(* A step that is one call of show.                                        *)
ShowStep == mbShows' = mbShows + 1

(* C24: after any sequence of show requests and dialog completions the     *)
(* number of tracked dialogs never exceeds the maximum the manager was     *)
(* configured with (the default 8 when none was given): a show made while  *)
(* the list is full creates no dialog and leaves the list as it is, any    *)
(* other show appends one new dialog, a dialog that reports completion is  *)
(* removed from the list exactly once, and the tracked dialogs are the     *)
(* created ones that have not completed.                                   *)
C24_BoundedList ==
  /\ [](/\ Len(mbList) <= MaxBoxNumOf(mbParam)
        /\ Range(mbList) = (1..mbCreated) \ mbClosed
        /\ Cardinality(Range(mbList)) = Len(mbList)
        /\ \A d \in 1..MaxShows :
             /\ mbRemovals[d] <= 1
             /\ (d \in mbClosed) <=> (mbRemovals[d] = 1))
  /\ [][ShowStep =>
          IF Len(mbList) >= MaxBoxNumOf(mbParam)
          THEN mbList' = mbList /\ mbCreated' = mbCreated
          ELSE mbCreated' = mbCreated + 1 /\ mbList' = Append(mbList, mbCreated')]_vars
  /\ [][\A d \in 1..MaxShows :
          (d \in Range(mbList) /\ d \in mbClosed') =>
            /\ d \notin Range(mbList')
            /\ Len(mbList') = Len(mbList) - 1]_vars

(* With a maximum of 2: two dialogs were shown, a third request was        *)
(* dropped, the first dialog completed, and a fourth request got its slot. *)
C24_Witness ==
  /\ mbParam = <<2>>
  /\ mbShows = 4
  /\ mbCreated = 3
  /\ mbClosed = {1}
  /\ mbList = <<2, 3>>

(* With the default maximum: eight dialogs are tracked and a ninth request *)
(* was dropped.                                                            *)
C24_WitnessDefault ==
  /\ mbParam = <<>>
  /\ Len(mbList) = DEFAULT_MAX_MSG_BOX_NUM
  /\ mbShows = DEFAULT_MAX_MSG_BOX_NUM + 1
  /\ mbCreated = DEFAULT_MAX_MSG_BOX_NUM

(***************************************************************************)
(* Claims about GitRepo.clone                                              *)
(***************************************************************************)
CloneEnded == clpc \in {"returned", "raised"}

(* C25: clone ends with a configuration error (RuntimeError), and without  *)
(* having called git.Repo.clone_from, when the username or the password is *)
(* missing and when the remote URL begins with anything but http or https. *)
C25_ConfigErrorBeforeClone ==
  /\ clpc = "clone" => (Truthy(clUser) /\ Truthy(clPass)
                          /\ clScheme \in {"http", "https"})
  /\ (CloneEnded /\ (~Truthy(clUser) \/ ~Truthy(clPass)
                       \/ clScheme \notin {"http", "https"}))
       => (clErr = "RuntimeError" /\ ~clAttempted)

(***************************************************************************)
(* Claims about the packaging drivers                                      *)
(***************************************************************************)
PkgEnded == pkpc \in {"returned", "raised"}

(* C26: when a packaging driver that has written the build version into    *)
(* the source or resource files terminates, both files hold the reset      *)
(* value again, whether the bundler succeeded or failed.                   *)
C26_VersionResetOnExit ==
  (PkgEnded /\ pkInjected) => (pkPy = "reset" /\ pkRc = "reset")

(* The weaker half that does hold: a run that returns has reset both       *)
(* files.                                                                  *)
C26_ResetWhenReturned ==
  pkpc = "returned" => (pkPy = "reset" /\ pkRc = "reset")

=============================================================================
